---- MODULE Spec2Model ----
(***************************************************************************)
(* Model of llm_proofreader.py of electrum-locale: the extraction of       *)
(* changed translations from a unified diff of .po files (parse_po_diff    *)
(* and the line scanner under it) and the asynchronous classification of   *)
(* the change records under a semaphore with retry (scan_diff_async,       *)
(* classify_translation_async, call_openai_async, run_diff_check_async).   *)
(*                                                                         *)
(* Text is modelled as sequences of one-character strings, so that the     *)
(* regular expressions and string methods of the code are computed on      *)
(* characters.                                                             *)
(***************************************************************************)
EXTENDS Integers, Sequences, FiniteSets, TLC

(***************************************************************************)
(* Bounds of the model.                                                    *)
(***************************************************************************)
\* longest hunk (in lines) of the single-hunk diffs
MaxLines == 3
\* most files of the diffs with several files
MaxFiles == 2
\* most change records handed to the orchestrator
MaxRecs == 3
\* largest concurrency limit (the CONCURRENCY setting) of a run
MaxK == 2
\* the failed attempts of one record are counted up to this number
MaxAttempts == 1
\* the longest line sequence given to the scanner on its own
MaxScanLines == 3
\* the most tokens (escape sequences, single characters) of a raw value
MaxTokens == 4
\* invocations of main() in directory mode, one after the other
MaxRuns == 2

(***************************************************************************)
(* Characters and lines.                                                   *)
(***************************************************************************)
Q == "\""
BS == "\\"
NL == "\n"
TAB == "\t"

\* the prefix tested by line.startswith('msgid "')
MsgidPrefix == <<"m", "s", "g", "i", "d", " ", Q>>
\* the prefix tested by line.startswith('msgstr "')
MsgstrPrefix == <<"m", "s", "g", "s", "t", "r", " ", Q>>

\* str.startswith
StartsWith(line, prefix) ==
    /\ Len(line) >= Len(prefix)
    /\ SubSeq(line, 1, Len(prefix)) = prefix

\* the positions of the double quotes of a line
QuotePositions(line) == {p \in 1..Len(line) : line[p] = Q}

Range(seq) == {seq[i] : i \in DOMAIN seq}
Count(seq, x) == Cardinality({i \in DOMAIN seq : seq[i] = x})

RECURSIVE SumOver(_, _)
\* the sum of f[x] over the elements x of S
SumOver(f, S) ==
    IF S = {} THEN 0
    ELSE LET x == CHOOSE y \in S : TRUE
         IN  f[x] + SumOver(f, S \ {x})

RECURSIVE Flatten(_)
\* the concatenation of a sequence of sequences
Flatten(ss) == IF ss = <<>> THEN <<>> ELSE Head(ss) \o Flatten(Tail(ss))

SetMin(S) == CHOOSE x \in S : \A y \in S : x <= y
SetMax(S) == CHOOSE x \in S : \A y \in S : x >= y

\* re.search(r'"(.*)"', line): the leftmost match starts at the first quote
\* and the greedy .* runs to the last quote of the line.
SearchQuotedMatches(line) == Cardinality(QuotePositions(line)) >= 2
SearchQuotedGroup(line) ==
    SubSeq(line, SetMin(QuotePositions(line)) + 1, SetMax(QuotePositions(line)) - 1)

\* re.match(r'^"(.*)"$', line): the whole line is one quoted string.
ContMatches(line) ==
    /\ Len(line) >= 2
    /\ line[1] = Q
    /\ line[Len(line)] = Q
ContGroup(line) == SubSeq(line, 2, Len(line) - 1)

(***************************************************************************)
(* _unescape_po: one left-to-right pass of re.sub over \\[\\nt"].          *)
(***************************************************************************)
EscapeLetters == {BS, "n", "t", Q}
\* faulty variant: the table maps the escaped tab to the letter t
PO_ESCAPES_plain_t(c) ==
    CASE c = BS  -> BS
      [] c = "n" -> NL
      [] c = "t" -> "t"
      [] c = Q   -> Q
PO_ESCAPES(c) ==
    CASE c = BS  -> BS
      [] c = "n" -> NL
      [] c = "t" -> TAB
      [] c = Q   -> Q

RECURSIVE UnescapeFrom(_, _)
UnescapeFrom(s, i) ==
    IF i > Len(s) THEN <<>>
    ELSE IF s[i] = BS /\ i < Len(s) /\ s[i + 1] \in EscapeLetters
         THEN <<PO_ESCAPES(s[i + 1])>> \o UnescapeFrom(s, i + 2)
         ELSE <<s[i]>> \o UnescapeFrom(s, i + 1)

RECURSIVE ReplaceAll(_, _, _)
\* str.replace of the two characters <<BS, c>> by the character r
ReplaceAll(s, c, r) ==
    IF s = <<>> THEN <<>>
    ELSE IF Len(s) >= 2 /\ s[1] = BS /\ s[2] = c
         THEN <<r>> \o ReplaceAll(SubSeq(s, 3, Len(s)), c, r)
         ELSE <<Head(s)>> \o ReplaceAll(Tail(s), c, r)
\* faulty variant: one replacement pass per escape sequence, the escaped
\* backslash first
unescape_po_multipass(s) ==
    ReplaceAll(ReplaceAll(ReplaceAll(ReplaceAll(s, BS, BS), "n", NL), "t", TAB), Q, Q)

unescape_po(s) == UnescapeFrom(s, 1)

(***************************************************************************)
(* _extract_po_string_lines(lines, start): the value of the keyword line   *)
(* and of the continuation lines after it, and the index of the next line. *)
(***************************************************************************)
\* faulty variant: at most one continuation line is taken
ContinuationEndAfterOne(lines, i) ==
    IF i <= Len(lines) /\ ContMatches(lines[i]) THEN i + 1 ELSE i

RECURSIVE ContinuationEnd(_, _)
\* the while loop of lines 172-178: the first index from i on whose line
\* is not a bare quoted string
ContinuationEnd(lines, i) ==
    IF i <= Len(lines) /\ ContMatches(lines[i])
    THEN ContinuationEnd(lines, i + 1)
    ELSE i

RECURSIVE JoinGroups(_, _, _)
\* "".join(parts) over the continuation lines from..to-1
JoinGroups(lines, from, to) ==
    IF from >= to THEN <<>>
    ELSE ContGroup(lines[from]) \o JoinGroups(lines, from + 1, to)

extract_po_string_lines(lines, start) ==
    IF ~SearchQuotedMatches(lines[start])
    THEN [value |-> <<>>, next |-> start + 1]
    ELSE LET end == ContinuationEnd(lines, start + 1)
         IN  [value |-> unescape_po(SearchQuotedGroup(lines[start])
                                     \o JoinGroups(lines, start + 1, end)),
              next  |-> end]

(***************************************************************************)
(* _extract_pairs_from_lines(lines): the (msgid, msgstr) pairs.            *)
(***************************************************************************)
RECURSIVE SkipToMsgstr(_, _)
\* faulty variant: the search for the msgstr line runs over msgid lines
SkipToMsgstr(lines, i) ==
    IF i <= Len(lines) /\ ~StartsWith(lines[i], MsgstrPrefix)
    THEN SkipToMsgstr(lines, i + 1)
    ELSE i

\* faulty variant: the first line after the key that is no value-marker
\* line ends the entry
SkipToMarkerNever(lines, i) == i
RECURSIVE SkipToMarker(_, _)
\* the while loop of lines 195-196
SkipToMarker(lines, i) ==
    IF /\ i <= Len(lines)
       /\ ~StartsWith(lines[i], MsgstrPrefix)
       /\ ~StartsWith(lines[i], MsgidPrefix)
    THEN SkipToMarker(lines, i + 1)
    ELSE i

\* faulty variant: the end of the input counts as a msgstr line
AtMsgstrOrEnd(lines, i) == i > Len(lines) \/ StartsWith(lines[i], MsgstrPrefix)
\* lines 191 and 197: i < len(lines) and lines[i].startswith('msgstr "')
AtMsgstr(lines, i) == i <= Len(lines) /\ StartsWith(lines[i], MsgstrPrefix)

\* faulty variant: the pair is kept whatever its key
KeepPairAlways(msgid) == TRUE
\* the emptiness test "if msgid:" of line 199
KeepPair(msgid) == msgid # <<>>

RECURSIVE PairsFrom(_, _)
PairsFrom(lines, i) ==
    IF i > Len(lines) THEN <<>>
    ELSE IF StartsWith(lines[i], MsgidPrefix)
    THEN LET id == extract_po_string_lines(lines, i)
             i1 == id.next
             direct == AtMsgstr(lines, i1)
             i2 == IF direct THEN i1 ELSE SkipToMarker(lines, i1)
             found == AtMsgstr(lines, i2)
             str == IF found THEN extract_po_string_lines(lines, i2)
                             ELSE [value |-> <<>>, next |-> i2]
         IN  (IF KeepPair(id.value) THEN <<<<id.value, str.value>>>> ELSE <<>>)
                 \o PairsFrom(lines, str.next)
    ELSE PairsFrom(lines, i + 1)

extract_pairs_from_lines(lines) == PairsFrom(lines, 1)

RECURSIVE RaisesFrom(_, _)
\* whether the scan from line i on raises: lines[start] of line 160 is an
\* IndexError when _extract_po_string_lines is called past the last line;
\* every other read of lines[i] is guarded by "i < len(lines) and"
RaisesFrom(lines, i) ==
    IF i > Len(lines) THEN FALSE
    ELSE IF StartsWith(lines[i], MsgidPrefix)
    THEN LET i1 == extract_po_string_lines(lines, i).next
             direct == AtMsgstr(lines, i1)
             i2 == IF direct THEN i1 ELSE SkipToMarker(lines, i1)
             found == AtMsgstr(lines, i2)
         IN  IF found /\ i2 > Len(lines) THEN TRUE
             ELSE RaisesFrom(lines, IF found
                                    THEN extract_po_string_lines(lines, i2).next
                                    ELSE i2)
    ELSE RaisesFrom(lines, i + 1)

(***************************************************************************)
(* The parsed diff.  PatchSet (the unidiff library) turns the diff text    *)
(* into files, each with a path and hunks, each hunk a sequence of lines   *)
(* with a type (added "+", removed "-", context " ") and a value that      *)
(* still ends with its line terminator.                                    *)
(***************************************************************************)
Line(tag, content) == [tag |-> tag, value |-> content \o <<NL>>]
is_added(line) == line.tag = "+"
\* faulty variant: no line counts as removed
is_removed_never(line) == FALSE
is_removed(line) == line.tag = "-"

RECURSIVE RStripNL(_)
\* str.rstrip('\n')
RStripNL(s) ==
    IF s # <<>> /\ s[Len(s)] = NL THEN RStripNL(SubSeq(s, 1, Len(s) - 1)) ELSE s

\* A path is the sequence of its segments.  file_match of line 226,
\* re.search(r'locale/([^/]+)/electrum\.po\b', path): a segment that ends
\* with "locale", then a whole non-empty segment (the group), then a segment
\* that starts with "electrum.po" followed by a word boundary.
EndsWithLocale(seg) == seg \in {"locale", "old_locale"}
StartsWithElectrumPo(seg) == seg \in {"electrum.po", "electrum.po.orig"}
\* faulty variant: any file of a locale directory counts
MatchPositionsAnyFile(path) ==
    {p \in 1..(Len(path) - 2) : EndsWithLocale(path[p]) /\ path[p + 1] # ""}
MatchPositions(path) ==
    {p \in 1..(Len(path) - 2) :
        /\ EndsWithLocale(path[p])
        /\ path[p + 1] # ""
        /\ StartsWithElectrumPo(path[p + 2])}
file_match(path) == MatchPositions(path) # {}
current_locale(path) == path[SetMin(MatchPositions(path)) + 1]

RECURSIVE PlusLines(_)
\* lines 237-245: the '+' side of a hunk
PlusLines(hunk) ==
    IF hunk = <<>> THEN <<>>
    ELSE LET line == Head(hunk)
             content == RStripNL(line.value)
         IN  (IF is_added(line) THEN <<content>>
              ELSE IF is_removed(line) THEN <<>>
              ELSE <<content>>) \o PlusLines(Tail(hunk))

RECURSIVE MinusLines(_)
\* lines 237-245: the '-' side of a hunk
MinusLines(hunk) ==
    IF hunk = <<>> THEN <<>>
    ELSE LET line == Head(hunk)
             content == RStripNL(line.value)
         IN  (IF is_added(line) THEN <<>>
              ELSE IF is_removed(line) THEN <<content>>
              ELSE <<content>>) \o MinusLines(Tail(hunk))

\* a dict as a function on the set of its keys
EmptyDict == [k \in {} |-> <<>>]
DictPut(d, k, v) == [x \in (DOMAIN d) \cup {k} |-> IF x = k THEN v ELSE d[x]]
DictGet(d, k, default) == IF k \in DOMAIN d THEN d[k] ELSE default

RECURSIVE OldLookupFirstWins(_, _)
\* faulty variant: the first value of a key is kept
OldLookupFirstWins(d, pairs) ==
    IF pairs = <<>> THEN d
    ELSE IF Head(pairs)[1] \in DOMAIN d
    THEN OldLookupFirstWins(d, Tail(pairs))
    ELSE OldLookupFirstWins(DictPut(d, Head(pairs)[1], Head(pairs)[2]), Tail(pairs))

RECURSIVE OldLookupFrom(_, _)
\* lines 250-252: old_lookup[msgid] = msgstr for each old pair in turn
OldLookupFrom(d, pairs) ==
    IF pairs = <<>> THEN d
    ELSE OldLookupFrom(DictPut(d, Head(pairs)[1], Head(pairs)[2]), Tail(pairs))

old_lookup(hunk) == OldLookupFrom(EmptyDict, extract_pairs_from_lines(MinusLines(hunk)))

\* faulty variant: the empty new value is not skipped
SkipEmptyNever(msgstr) == FALSE
\* line 255: "if not msgstr: continue"
SkipEmpty(msgstr) == msgstr = <<>>
\* faulty variant: only a translation that was empty before counts as changed
IsChangedOnlyNew(msgstr, old_msgstr) == old_msgstr = <<>>
\* line 258: "if msgstr != old_msgstr"
IsChanged(msgstr, old_msgstr) == msgstr # old_msgstr

RECURSIVE EmitFrom(_, _, _)
\* lines 254-259: the change records of the new pairs
EmitFrom(locale, lookup, pairs) ==
    IF pairs = <<>> THEN <<>>
    ELSE LET msgid == Head(pairs)[1]
             msgstr == Head(pairs)[2]
             rest == EmitFrom(locale, lookup, Tail(pairs))
         IN  IF SkipEmpty(msgstr) THEN rest
             ELSE IF IsChanged(msgstr, DictGet(lookup, msgid, <<>>))
                  THEN <<<<locale, msgid, msgstr>>>> \o rest
                  ELSE rest

\* lines 233-259: the records of one hunk
HunkRecords(locale, hunk) ==
    EmitFrom(locale, old_lookup(hunk), extract_pairs_from_lines(PlusLines(hunk)))

RECURSIVE HunksRecordsReversed(_, _)
\* faulty variant: the records of a later hunk are put in front
HunksRecordsReversed(locale, hunks) ==
    IF hunks = <<>> THEN <<>>
    ELSE HunksRecordsReversed(locale, Tail(hunks)) \o HunkRecords(locale, Head(hunks))

\* faulty variant: one pre-image lookup is built for the whole file
HunksRecordsSharedLookup(locale, hunks) ==
    LET lookup == OldLookupFrom(EmptyDict,
                      Flatten([k \in DOMAIN hunks |->
                                  extract_pairs_from_lines(MinusLines(hunks[k]))]))
    IN  Flatten([k \in DOMAIN hunks |->
                    EmitFrom(locale, lookup, extract_pairs_from_lines(PlusLines(hunks[k])))])
RECURSIVE HunksRecords(_, _)
\* line 232: "for hunk in patched_file"
HunksRecords(locale, hunks) ==
    IF hunks = <<>> THEN <<>>
    ELSE HunkRecords(locale, Head(hunks)) \o HunksRecords(locale, Tail(hunks))

RECURSIVE FilesRecords(_)
\* lines 223-259: "for patched_file in patch_set"
FilesRecords(files) ==
    IF files = <<>> THEN <<>>
    ELSE LET f == Head(files)
         IN  (IF file_match(f.path)
              THEN HunksRecords(current_locale(f.path), f.hunks)
              ELSE <<>>) \o FilesRecords(Tail(files))

\* parse_po_diff on the parsed diff; the empty diff text has no files
parse_po_diff(d) == FilesRecords(d)

(***************************************************************************)
(* Inputs: lines of .po files, hunks, paths and diffs.                     *)
(***************************************************************************)
MsgidLine(c) == MsgidPrefix \o c \o <<Q>>
MsgstrLine(c) == MsgstrPrefix \o c \o <<Q>>
CommentLine == <<"#", ":">>

\* the contents of the lines of the enumerated hunks
HunkLineContents ==
    {MsgidLine(<<"a">>), MsgstrLine(<<"x">>), MsgstrLine(<<"y">>), MsgstrLine(<<>>),
     CommentLine}
Tags == {"+", "-", " "}
HunkLines == {Line(t, c) : t \in Tags, c \in HunkLineContents}

SeqsUpTo(S, n) == UNION {[1..m -> S] : m \in 0..n}

PathDe == <<"locale", "de_DE", "electrum.po">>
PathFr == <<"locale", "fr_FR", "electrum.po">>
PathNested == <<"electrum", "old_locale", "fr_FR", "electrum.po.orig">>
PathReadme == <<"README.md">>
PathTemplate == <<"locale", "de_DE", "messages.pot">>
PathNoLocale == <<"locale", "electrum.po">>

\* a translation is added: msgid "a" goes from msgstr "" to msgstr "x"
HunkAdd ==
    <<Line(" ", MsgidLine(<<"a">>)), Line("-", MsgstrLine(<<>>)),
      Line("+", MsgstrLine(<<"x">>))>>
\* a translation is modified: msgid "b" goes from msgstr "x" to msgstr "y"
HunkModify ==
    <<Line(" ", MsgidLine(<<"b">>)), Line("-", MsgstrLine(<<"x">>)),
      Line("+", MsgstrLine(<<"y">>))>>
\* only the comment above an entry changes
HunkComment ==
    <<Line("-", CommentLine), Line("+", CommentLine),
      Line(" ", MsgidLine(<<"a">>)), Line(" ", MsgstrLine(<<"y">>))>>
\* a hunk of unchanged entries under a changed comment, the key "a" being
\* used by two entries (as with two msgctxt) with different translations
HunkDuplicateKey ==
    <<Line("-", CommentLine), Line("+", CommentLine),
      Line(" ", MsgidLine(<<"a">>)), Line(" ", MsgstrLine(<<"x">>)),
      Line(" ", MsgidLine(<<"a">>)), Line(" ", MsgstrLine(<<"y">>))>>

\* an entry is added untranslated
HunkUntranslated ==
    <<Line("+", MsgidLine(<<"a">>)), Line("+", MsgstrLine(<<>>))>>
\* the translation of msgid "b" is deleted
HunkDelete ==
    <<Line(" ", MsgidLine(<<"b">>)), Line("-", MsgstrLine(<<"x">>)),
      Line("+", MsgstrLine(<<>>))>>
\* two translated entries are added
HunkTwoAdded ==
    <<Line("+", MsgidLine(<<"b">>)), Line("+", MsgstrLine(<<"x">>)),
      Line("+", MsgidLine(<<"a">>)), Line("+", MsgstrLine(<<"y">>))>>

\* the translated entry "b" is removed
HunkEntryRemoved ==
    <<Line("-", MsgidLine(<<"b">>)), Line("-", MsgstrLine(<<"x">>))>>
\* the translated entry "b" is added, with the value it has in HunkEntryRemoved
HunkEntryAdded ==
    <<Line("+", MsgidLine(<<"b">>)), Line("+", MsgstrLine(<<"x">>))>>

File(path, hunks) == [path |-> path, hunks |-> hunks]

\* the files of the diffs with several files
SmallFiles ==
    {File(PathDe, <<HunkAdd>>), File(PathFr, <<HunkAdd>>), File(PathReadme, <<HunkAdd>>),
     File(PathDe, <<HunkComment>>), File(PathDe, <<HunkAdd, HunkModify>>),
     File(PathFr, <<HunkComment, HunkModify>>), File(PathNested, <<HunkModify>>),
     File(PathTemplate, <<HunkAdd>>), File(PathNoLocale, <<HunkModify>>)}

\* the diffs of one hunk of one .po file, over every hunk up to MaxLines
OneHunkDiffs == {<<File(PathDe, <<h>>)>> : h \in SeqsUpTo(HunkLines, MaxLines)}
\* the diffs of up to MaxFiles files
ManyFileDiffs == SeqsUpTo(SmallFiles, MaxFiles)
\* single diffs longer than MaxLines
ExtraDiffs ==
    {<<File(PathDe, <<HunkDuplicateKey>>)>>,
     <<File(PathDe, <<HunkUntranslated, HunkDelete>>)>>,
     <<File(PathFr, <<HunkTwoAdded, HunkModify>>), File(PathDe, <<HunkAdd>>)>>,
     <<File(PathDe, <<HunkEntryRemoved, HunkEntryAdded>>)>>,
     <<File(PathFr, <<HunkEntryAdded, HunkComment, HunkEntryRemoved>>)>>}
DiffInputs == OneHunkDiffs \cup ManyFileDiffs \cup ExtraDiffs

\* the hunk that adds, to the j-th file of a run, a translation of its own
RunKey(j) == IF (j % 4) \in {1, 2} THEN <<"a">> ELSE <<"b">>
RunValue(j) == IF j % 2 = 1 THEN <<"x">> ELSE <<"y">>
RunHunk(j) ==
    <<Line("-", CommentLine), Line("+", CommentLine),
      Line(" ", MsgidLine(RunKey(j))), Line("-", MsgstrLine(<<>>)),
      Line("+", MsgstrLine(RunValue(j)))>>
\* the diffs of the runs: no change record, one record, two records of one
\* file, and MaxRecs records that alternate between two locales
SmallRunDiffs ==
    {<<File(PathReadme, <<HunkAdd>>), File(PathDe, <<HunkComment>>)>>,
     <<File(PathFr, <<RunHunk(1)>>)>>,
     <<File(PathDe, <<RunHunk(1), RunHunk(2)>>)>>}
RunDiffs ==
    SmallRunDiffs
        \cup {[j \in 1..MaxRecs |->
                  File(IF j % 2 = 1 THEN PathDe ELSE PathFr, <<RunHunk(j)>>)]}

(***************************************************************************)
(* The classifier's answers.                                               *)
(***************************************************************************)
Upper == <<"A", "B", "C", "D", "E", "F", "G", "H", "I", "J", "K", "L", "M",
           "N", "O", "P", "Q", "R", "S", "T", "U", "V", "W", "X", "Y", "Z">>
Lower == <<"a", "b", "c", "d", "e", "f", "g", "h", "i", "j", "k", "l", "m",
           "n", "o", "p", "q", "r", "s", "t", "u", "v", "w", "x", "y", "z">>
\* str.lower on one character
LowerChar(c) ==
    IF \E k \in DOMAIN Upper : Upper[k] = c
    THEN Lower[CHOOSE k \in DOMAIN Upper : Upper[k] = c]
    ELSE c
StrLower(s) == [i \in DOMAIN s |-> LowerChar(s[i])]

Whitespace == {" ", TAB, NL, "\r"}
RECURSIVE LStrip(_)
LStrip(s) == IF s # <<>> /\ Head(s) \in Whitespace THEN LStrip(Tail(s)) ELSE s
RECURSIVE RStrip(_)
RStrip(s) ==
    IF s # <<>> /\ s[Len(s)] \in Whitespace
    THEN RStrip(SubSeq(s, 1, Len(s) - 1))
    ELSE s
\* str.strip
StrStrip(s) == RStrip(LStrip(s))

\* "needle in s" on strings
Contains(s, needle) ==
    \E k \in 0..(Len(s) - Len(needle)) : SubSeq(s, k + 1, k + Len(needle)) = needle

GenuineToken == <<"g", "e", "n", "u", "i", "n", "e">>
SpamToken == <<"s", "p", "a", "m">>

\* line 359: content.strip().lower()
Normalize(raw) == StrLower(StrStrip(raw))
\* faulty variant: a payload that contains a token is taken as recognized
RecognizedBySubstring(response) ==
    Contains(response, GenuineToken) \/ Contains(response, SpamToken)
\* line 360: assert response in ("genuine", "spam")
Recognized(response) == response \in {GenuineToken, SpamToken}
\* lines 380-382 of classify_translation_async
Classify(response) == IF Contains(response, GenuineToken) THEN "Genuine" ELSE "Spam"

\* the message contents the classifier may answer with
RawPayloads ==
    {<<"G", "e", "n", "u", "i", "n", "e">>,
     <<" ", "S", "P", "A", "M", NL>>,
     <<"n", "o", "t", " ", "g", "e", "n", "u", "i", "n", "e">>,
     <<"S", "p", "a", "m", ".">>,
     <<>>}
\* what an attempt can end with: the request raises (network error, call
\* timeout), the status is not 200, the body is not the expected JSON, or
\* the body holds a message content
ErrorKinds == {"network", "timeout", "status", "malformed"}
Outcomes ==
    [kind : ErrorKinds, raw : {<<>>}] \cup [kind : {"payload"}, raw : RawPayloads]
\* the outcomes of the runs checked for termination
LiveOutcomes ==
    [kind : {"timeout"}, raw : {<<>>}]
        \cup [kind : {"payload"}, raw : {<<"G", "e", "n", "u", "i", "n", "e">>,
                                         <<" ", "S", "P", "A", "M", NL>>,
                                         <<"S", "p", "a", "m", ".">>}]

\* lines 355-361: the attempt returns a response
Succeeds(o) == o.kind = "payload" /\ Recognized(Normalize(o.raw))
\* the reason of the failure of an attempt
FailureKind(o) == IF o.kind = "payload" THEN "unrecognized" ELSE o.kind

(***************************************************************************)
(* State.                                                                  *)
(***************************************************************************)
VARIABLES
    diff,            \* the parsed diff given to the run
    changed,         \* the change records, result of parse_po_diff
    main,            \* where run_diff_check_async / scan_diff_async is
    K,               \* get_concurrency()
    value,           \* semaphore._value
    waiters,         \* semaphore._waiters: the tasks waiting in acquire()
    pc,              \* per task of gather: where it is
    attempts,        \* per task: its failed attempts, counted up to MaxAttempts
    why,             \* per task: the failure it is sleeping on
    classification,  \* per task: what classify_translation_async returned
    ret,             \* per task: what _check returned (<<>> is None)
    outOfOrder,      \* a task finished before an earlier task did
    sent,            \* per task: the requests it has posted so far, as a set
    inflight,        \* per task: its requests posted and not yet ended
    results,         \* what gather returned
    spam_by_locale,  \* the dict built from the results
    report,          \* the report file (<<>> while not written)
    stats,           \* what run_diff_check_async returned (<<>> before)
    call,            \* a call of a helper on its own: the function and its arguments
    returned,        \* what that call returned (<<>> before)
    mode,            \* main(): where the diff comes from (--diff-commits, --diff -, --diff PATH)
    api_key,         \* os.environ["OPENAI_API_KEY"] after line 626 ("" when not set)
    source,          \* main(): what obtaining the diff text gives
    exit_status,     \* what main() returns to exit() (<<>> while running)
    force,           \* scan_locale_directory_async: its force argument
    tree,            \* the locale directory: per locale, how many translated entries
    outdir,          \* the output directory: per file name, the content
    outdir0,         \* the output directory when the current scan started
    dmain,           \* where main() in directory mode is
    cursor,          \* scan_locale_directory_async: position in sorted(locales)
    dstats,          \* scan_locale_directory_async: stats
    invoked,         \* per locale: classifier calls made for it by the current scan
    runs,            \* invocations of main() so far
    lscan,           \* scan_locale_directory_async: the locale being scanned
    scan,            \* _extract_pairs_from_lines run step by step: its locals
    upd              \* update.py: the environment and the locals of its functions

vars == <<diff, changed, main, K, value, waiters, pc, attempts, why,
          classification, ret, outOfOrder, sent, inflight,
          results, spam_by_locale, report, stats,
          call, returned, mode, api_key, source, exit_status,
          force, tree, outdir, outdir0, dmain, cursor, dstats, invoked, runs,
          lscan, scan, upd>>

callVars == <<call, returned, scan, upd>>
cliVars == <<mode, api_key, source, exit_status>>
dirVars == <<force, tree, outdir, outdir0, dmain, cursor, dstats, invoked, runs, lscan>>

semVars == <<value, waiters>>
reqVars == <<sent, inflight>>
taskVars == <<pc, attempts, why, classification, ret, outOfOrder, reqVars>>
outVars == <<results, spam_by_locale, report, stats>>
runVars == <<diff, changed, main, K, semVars, taskVars, outVars>>

Tasks == DOMAIN pc
None == <<>>

\* the API key given to the runs that are not started from main()
SomeKey == "sk"
\* no key: get_openai_api_key() returns "" (line 110); the key is only used
\* for the Authorization header, left out when it is empty (lines 349-350)
NoKey == ""

\* the scanner is not run step by step, update.py is not run
NoSteps ==
    /\ scan = [where |-> "none"]
    /\ upd = [fn |-> "none"]

\* a run that is not started from main()
NoCli ==
    /\ mode = "none"
    /\ api_key = SomeKey
    /\ source = "text"
    /\ exit_status = <<>>

\* lines 458-462
ZeroStats == [scanned |-> 0, skipped |-> 0, total_spam |-> 0]

\* lines 478-479: no locale is being scanned.  file is the position in
\* locales[locale_name], verdicts the number of verdicts given in that file,
\* spam_entries the flagged entries of that file; interrupted names the
\* locale an interrupt stopped, stale tells that its report of an earlier
\* run was there
NoLocale ==
    [file |-> 0, verdicts |-> 0, spam_entries |-> <<>>, locale_spam |-> <<>>,
     interrupted |-> "none", stale |-> FALSE]

\* no locale directory, no output directory, main() not in directory mode
NoDir ==
    /\ lscan = NoLocale
    /\ force = FALSE
    /\ tree = EmptyDict
    /\ outdir = EmptyDict
    /\ outdir0 = EmptyDict
    /\ dmain = "none"
    /\ cursor = 0
    /\ dstats = ZeroStats
    /\ invoked = EmptyDict
    /\ runs = 0

\* the state after the construction of the semaphore (line 302)
InitRun(diffs, limits) ==
    /\ diff \in diffs
    /\ changed = <<>>
    /\ main = "start"
    /\ K \in limits
    /\ value = K
    /\ waiters = <<>>
    /\ pc = <<>>
    /\ attempts = <<>>
    /\ why = <<>>
    /\ classification = <<>>
    /\ ret = <<>>
    /\ outOfOrder = FALSE
    /\ sent = <<>>
    /\ inflight = <<>>
    /\ results = <<>>
    /\ spam_by_locale = EmptyDict
    /\ report = <<>>
    /\ stats = <<>>
    /\ call = [fn |-> "none"]
    /\ returned = <<>>
    /\ NoSteps
    /\ NoCli
    /\ NoDir

(***************************************************************************)
(* parse_po_diff alone.                                                    *)
(***************************************************************************)
Parse ==
    /\ main = "start"
    /\ changed' = parse_po_diff(diff)
    /\ main' = "parsed"
    /\ UNCHANGED <<callVars, cliVars, dirVars, diff, K, semVars, taskVars, outVars>>

InitDiff == InitRun(DiffInputs, {1})

NextDiff == Parse

SpecDiff == InitDiff /\ [][NextDiff]_vars

(***************************************************************************)
(* The run: scan_diff_async under run_diff_check_async.                    *)
(***************************************************************************)
\* parse_po_diff is a pure function of the diff text; its values on the diffs
\* of a run, computed once
ParsedRunDiffs == [d \in RunDiffs |-> parse_po_diff(d)]

\* lines 273-287: the diff is parsed; without change records the scan
\* returns {} at once, otherwise gather makes one task per record
ScanDiff ==
    /\ main = "start"
    /\ LET recs == ParsedRunDiffs[diff]
       IN  /\ changed' = recs
           /\ main' = IF recs = <<>> THEN "scanned" ELSE "gather"
           /\ pc' = [i \in DOMAIN recs |-> "created"]
           /\ attempts' = [i \in DOMAIN recs |-> 0]
           /\ why' = [i \in DOMAIN recs |-> "none"]
           /\ classification' = [i \in DOMAIN recs |-> "none"]
           /\ ret' = [i \in DOMAIN recs |-> None]
           /\ sent' = [i \in DOMAIN recs |-> {}]
           /\ inflight' = [i \in DOMAIN recs |-> 0]
    /\ UNCHANGED <<callVars, cliVars, dirVars, diff, K, semVars, outOfOrder, outVars>>

\* lines 341-346 and 377: the request of a record is made once, before the
\* loop of the attempts, from its key, its value and its locale
Payload(rec) == [lang |-> rec[1], msgid |-> rec[2], msgstr |-> rec[3]]

\* line 354: task i posts its request
Post(i) ==
    /\ sent' = [sent EXCEPT ![i] = @ \cup {Payload(changed[i])}]
    /\ inflight' = [inflight EXCEPT ![i] = @ + 1]

\* lines 354-361: "async with session.post" is left, with the response or
\* with an exception; the request of task i is over
Ended(i) ==
    /\ inflight' = [inflight EXCEPT ![i] = @ - 1]
    /\ UNCHANGED sent

\* faulty variant: the semaphore always counts as locked
lockedAlways == TRUE
\* faulty variant: the semaphore never counts as locked
lockedNever == FALSE
\* Semaphore.locked(): no free slot, or tasks already waiting
locked == value = 0 \/ waiters # <<>>

\* every task has run to its first await
AllStarted == \A j \in Tasks : pc[j] # "created"

\* The first step of task i (lines 281, 377-379): the tasks run in the order
\* gather made them; "async with semaphore" takes a slot, or queues the
\* task when the semaphore is locked.  With a slot the first request is
\* posted (line 354).
Start(i) ==
    /\ main = "gather"
    /\ pc[i] = "created"
    /\ \A j \in Tasks : j < i => pc[j] # "created"
    /\ IF locked
       THEN /\ waiters' = Append(waiters, i)
            /\ pc' = [pc EXCEPT ![i] = "waiting"]
            /\ UNCHANGED <<value, reqVars>>
       ELSE /\ value' = value - 1
            /\ pc' = [pc EXCEPT ![i] = "posting"]
            /\ Post(i)
            /\ UNCHANGED waiters
    /\ UNCHANGED <<callVars, cliVars, dirVars, diff, changed, main, K, attempts, why, classification, ret,
                   outOfOrder, outVars>>

\* a task woken by release() returns from acquire() and posts its first
\* request; the loop runs the woken tasks in the order in which release()
\* woke them, which is the order of the waiters
Resume(i) ==
    /\ pc[i] = "woken"
    /\ \A j \in Tasks : pc[j] = "woken" => i <= j
    /\ pc' = [pc EXCEPT ![i] = "posting"]
    /\ Post(i)
    /\ UNCHANGED <<callVars, cliVars, dirVars, diff, changed, main, K, semVars, attempts, why, classification,
                   ret, outOfOrder, outVars>>

\* faulty variant: a failed attempt is given up and counts as a Spam verdict
FailAsVerdict(i, kind) ==
    /\ pc' = [pc EXCEPT ![i] = "done"]
    /\ classification' = [classification EXCEPT ![i] = "Spam"]
    /\ ret' = [ret EXCEPT ![i] = None]
    /\ Ended(i)
    /\ UNCHANGED <<attempts, why, semVars, outOfOrder>>
\* faulty variant: the slot is released for the time of the retry delay
FailReleasing(i, kind) ==
    /\ pc' = [j \in Tasks |-> IF j = i THEN "sleeping"
                               ELSE IF waiters # <<>> /\ j = Head(waiters) THEN "woken"
                               ELSE pc[j]]
    /\ value' = IF waiters = <<>> THEN value + 1 ELSE value
    /\ waiters' = IF waiters = <<>> THEN waiters ELSE Tail(waiters)
    /\ why' = [why EXCEPT ![i] = kind]
    /\ attempts' = [attempts EXCEPT ![i] = IF @ < MaxAttempts THEN @ + 1 ELSE @]
    /\ Ended(i)
    /\ UNCHANGED <<classification, ret, outOfOrder>>
\* faulty variant: after MaxAttempts failed attempts the task gives up and
\* returns without a verdict
FailGiveUp(i, kind) ==
    IF attempts[i] < MaxAttempts
    THEN /\ pc' = [pc EXCEPT ![i] = "sleeping"]
         /\ why' = [why EXCEPT ![i] = kind]
         /\ attempts' = [attempts EXCEPT ![i] = @ + 1]
         /\ Ended(i)
         /\ UNCHANGED <<classification, ret, semVars, outOfOrder>>
    ELSE /\ pc' = [pc EXCEPT ![i] = "done"]
         /\ why' = [why EXCEPT ![i] = kind]
         /\ Ended(i)
         /\ UNCHANGED <<attempts, classification, ret, semVars, outOfOrder>>
\* faulty variant: the request is posted again at once, without the delay
FailRetryAtOnce(i, kind) ==
    /\ why' = [why EXCEPT ![i] = kind]
    /\ attempts' = [attempts EXCEPT ![i] = IF @ < MaxAttempts THEN @ + 1 ELSE @]
    /\ UNCHANGED <<pc, classification, ret, semVars, outOfOrder, reqVars>>
\* lines 362-364: every exception of the attempt is caught, and the task
\* sleeps for the retry delay, still inside "async with semaphore"
Fail(i, kind) ==
    /\ pc' = [pc EXCEPT ![i] = "sleeping"]
    /\ why' = [why EXCEPT ![i] = kind]
    /\ attempts' = [attempts EXCEPT ![i] = IF @ < MaxAttempts THEN @ + 1 ELSE @]
    /\ Ended(i)
    /\ UNCHANGED <<classification, ret, semVars, outOfOrder>>

\* line 364 and back to line 354: after the delay the request is posted again
Retry(i) ==
    /\ pc[i] = "sleeping"
    /\ pc' = [pc EXCEPT ![i] = "posting"]
    /\ why' = [why EXCEPT ![i] = "none"]
    /\ Post(i)
    /\ UNCHANGED <<callVars, cliVars, dirVars, diff, changed, main, K, semVars, attempts, classification, ret,
                   outOfOrder, outVars>>

\* faulty variant: release() hands the slot to the last waiter
WokenByReleaseLast == IF waiters = <<>> THEN {} ELSE {waiters[Len(waiters)]}
\* faulty variant: release() frees the slot and wakes nobody
WokenByReleaseNobody == {}
\* Semaphore.release(): _wake_up_next hands the slot to the first waiter
WokenByRelease == IF waiters = <<>> THEN {} ELSE {Head(waiters)}

Entry(rec) == [original_str |-> rec[2], translation |-> rec[3]]
\* faulty variant: _check reports the record whatever its classification
CheckResultAlways(rec, class) == <<rec[1], Entry(rec)>>
\* lines 282-285 of _check
CheckResult(rec, class) == IF class = "Spam" THEN <<rec[1], Entry(rec)>> ELSE None

\* faulty variant: the verdicts go through a flag shared by the tasks; a
\* Spam verdict of any record makes every later verdict Spam
CompleteSticky(i, response) ==
    LET woken == WokenByRelease
        class == IF \E j \in Tasks : classification[j] = "Spam"
                 THEN "Spam"
                 ELSE Classify(response)
    IN  /\ pc' = [j \in Tasks |-> IF j = i THEN "done"
                                 ELSE IF j \in woken THEN "woken" ELSE pc[j]]
        /\ value' = IF woken = {} THEN value + 1 ELSE value
        /\ waiters' = SelectSeq(waiters, LAMBDA j : j \notin woken)
        /\ classification' = [classification EXCEPT ![i] = class]
        /\ ret' = [ret EXCEPT ![i] = CheckResult(changed[i], class)]
        /\ outOfOrder' = (outOfOrder \/ \E j \in Tasks : j < i /\ pc[j] # "done")
        /\ Ended(i)
        /\ UNCHANGED <<attempts, why>>
\* faulty variant: the task is done without releasing the semaphore
CompleteKeepSlot(i, response) ==
    LET class == Classify(response)
    IN  /\ pc' = [pc EXCEPT ![i] = "done"]
        /\ classification' = [classification EXCEPT ![i] = class]
        /\ ret' = [ret EXCEPT ![i] = CheckResult(changed[i], class)]
        /\ outOfOrder' = (outOfOrder \/ \E j \in Tasks : j < i /\ pc[j] # "done")
        /\ Ended(i)
        /\ UNCHANGED <<attempts, why, semVars>>
\* lines 361, 378-382, 281-285: the response is returned, the semaphore is
\* released on leaving "async with", the response is classified and _check
\* returns; the task is done
Complete(i, response) ==
    LET woken == WokenByRelease
        class == Classify(response)
    IN  /\ pc' = [j \in Tasks |-> IF j = i THEN "done"
                                 ELSE IF j \in woken THEN "woken" ELSE pc[j]]
        /\ value' = IF woken = {} THEN value + 1 ELSE value
        /\ waiters' = SelectSeq(waiters, LAMBDA j : j \notin woken)
        /\ classification' = [classification EXCEPT ![i] = class]
        /\ ret' = [ret EXCEPT ![i] = CheckResult(changed[i], class)]
        /\ outOfOrder' = (outOfOrder \/ \E j \in Tasks : j < i /\ pc[j] # "done")
        /\ Ended(i)
        /\ UNCHANGED <<attempts, why>>

\* lines 354-364: the attempt of task i ends with outcome o
Respond(i, o) ==
    /\ pc[i] = "posting"
    /\ AllStarted
    /\ IF Succeeds(o) THEN Complete(i, Normalize(o.raw)) ELSE Fail(i, FailureKind(o))
    /\ UNCHANGED <<callVars, cliVars, dirVars, diff, changed, main, K, outVars>>

\* faulty variant: gather returns only the results that are not None
GatherDropNone(rets) == SelectSeq(rets, LAMBDA r : r # None)
\* line 287: gather returns the results of the tasks in the order of the tasks
Gather(rets) == [i \in DOMAIN rets |-> rets[i]]

\* faulty variant: the entry is put in front of the entries of its locale
AddEntryInFront(d, locale, entry) == DictPut(d, locale, <<entry>> \o DictGet(d, locale, <<>>))
\* line 292: by_locale.setdefault(locale, []).append(entry)
AddEntry(d, locale, entry) == DictPut(d, locale, Append(DictGet(d, locale, <<>>), entry))

RECURSIVE ByLocaleFrom(_, _)
\* lines 288-292
ByLocaleFrom(d, rs) ==
    IF rs = <<>> THEN d
    ELSE LET r == Head(rs)
         IN  IF r # None
             THEN ByLocaleFrom(AddEntry(d, r[1], r[2]), Tail(rs))
             ELSE ByLocaleFrom(d, Tail(rs))

\* faulty variant: gather returns as soon as one task is done
GatherDoneEarly ==
    /\ main = "gather"
    /\ \E i \in Tasks : pc[i] = "done"
    /\ LET res == Gather(ret)
       IN  /\ results' = res
           /\ spam_by_locale' = ByLocaleFrom(EmptyDict, res)
    /\ main' = "scanned"
    /\ UNCHANGED <<callVars, cliVars, dirVars, diff, changed, K, semVars, taskVars, report, stats>>
\* lines 287-293: all tasks are done, gather returns and the dict is built
GatherDone ==
    /\ main = "gather"
    /\ \A i \in Tasks : pc[i] = "done"
    /\ LET res == Gather(ret)
       IN  /\ results' = res
           /\ spam_by_locale' = ByLocaleFrom(EmptyDict, res)
    /\ main' = "scanned"
    /\ UNCHANGED <<callVars, cliVars, dirVars, diff, changed, K, semVars, taskVars, report, stats>>

\* line 308
TotalSpam(d) == SumOver([l \in DOMAIN d |-> Len(d[l])], DOMAIN d)

\* faulty variant: total_checked counts the files of the diff
ReportCountingFiles ==
    /\ main = "scanned"
    /\ report' = <<[total_spam |-> TotalSpam(spam_by_locale), entries |-> spam_by_locale]>>
    /\ stats' = <<[total_checked |-> Len(diff),
                   total_spam |-> TotalSpam(spam_by_locale),
                   spam_entries |-> spam_by_locale]>>
    /\ main' = "returned"
    /\ UNCHANGED <<callVars, cliVars, dirVars, diff, changed, K, semVars, taskVars, results, spam_by_locale>>
\* lines 308-329: the report is written and the statistics are returned
Report ==
    /\ main = "scanned"
    /\ report' = <<[total_spam |-> TotalSpam(spam_by_locale), entries |-> spam_by_locale]>>
    /\ stats' = <<[total_checked |-> Len(ParsedRunDiffs[diff]),
                   total_spam |-> TotalSpam(spam_by_locale),
                   spam_entries |-> spam_by_locale]>>
    /\ main' = "returned"
    /\ UNCHANGED <<callVars, cliVars, dirVars, diff, changed, K, semVars, taskVars, results, spam_by_locale>>

Init == InitRun(RunDiffs, 1..MaxK)

Next ==
    \/ ScanDiff
    \/ \E i \in Tasks : Start(i)
    \/ \E i \in Tasks : Resume(i)
    \/ \E i \in Tasks, o \in Outcomes : Respond(i, o)
    \/ \E i \in Tasks : Retry(i)
    \/ GatherDone
    \/ Report

Spec == Init /\ [][Next]_vars

(***************************************************************************)
(* The run with an operator interrupt.  asyncio.run cancels the main task  *)
(* and with it the tasks of gather; the exception leaves                   *)
(* run_diff_check_async where it was, so nothing after that point runs.    *)
(* The cancelled tasks leave "async with semaphore" or give up their place *)
(* in the queue, which returns every slot.                                 *)
(***************************************************************************)
Abort ==
    /\ main \in {"start", "gather", "scanned"}
    /\ main' = "aborted"
    /\ pc' = [i \in Tasks |-> IF pc[i] = "done" THEN "done" ELSE "cancelled"]
    /\ value' = K
    /\ waiters' = <<>>
    /\ inflight' = [i \in Tasks |-> 0]
    /\ UNCHANGED <<callVars, cliVars, dirVars, diff, changed, K, attempts, why, classification, ret,
                   outOfOrder, sent, outVars>>

NextAbort ==
    \/ Next
    \/ Abort

SpecAbort == Init /\ [][NextAbort]_vars

(***************************************************************************)
(* main() in diff mode (lines 623-675): the diff text is obtained, an      *)
(* empty one ends the program, any other one is given to                   *)
(* run_diff_check_async, and the exit status is made from its counts.      *)
(***************************************************************************)
\* lines 608-620: the ways to name the diff
Modes == {"commits", "stdin", "file"}
\* what obtaining the diff gives: the text, or git diff fails (line 644),
\* git is not installed (line 647), the file does not exist (line 654), or
\* reading the file raises (line 657: a directory, no permission)
SourcesOf(m) ==
    CASE m = "commits" -> {"text", "git_failed", "git_missing"}
      [] m = "stdin" -> {"text"}
      [] m = "file" -> {"text", "not_found", "read_error"}
\* lines 646, 649, 656 return 1; the exception of line 657 is not caught
\* and ends the interpreter with status 1
SourceErrors == {"git_failed", "git_missing", "not_found", "read_error"}

\* the diff without any text
EmptyDiff == <<>>

InitMain ==
    /\ diff \in SmallRunDiffs \cup {EmptyDiff}
    /\ changed = <<>>
    /\ main = "cli"
    /\ K \in 1..MaxK
    /\ value = K
    /\ waiters = <<>>
    /\ pc = <<>>
    /\ attempts = <<>>
    /\ why = <<>>
    /\ classification = <<>>
    /\ ret = <<>>
    /\ outOfOrder = FALSE
    /\ sent = <<>>
    /\ inflight = <<>>
    /\ results = <<>>
    /\ spam_by_locale = EmptyDict
    /\ report = <<>>
    /\ stats = <<>>
    /\ call = [fn |-> "none"]
    /\ returned = <<>>
    /\ NoSteps
    /\ mode \in Modes
    /\ api_key \in {NoKey, SomeKey}
    /\ source \in SourcesOf(mode)
    /\ exit_status = <<>>
    /\ NoDir

\* lines 635-668: the diff text is obtained; a failure ends the program
\* with status 1, an empty text (line 659) with status 0, any other text
\* starts the run
ReadDiff ==
    /\ main = "cli"
    /\ IF source \in SourceErrors
       THEN /\ main' = "exited"
            /\ exit_status' = <<1>>
       ELSE IF diff = EmptyDiff
       THEN /\ main' = "exited"
            /\ exit_status' = <<0>>
       ELSE /\ main' = "start"
            /\ UNCHANGED exit_status
    /\ UNCHANGED <<callVars, dirVars, mode, api_key, source, diff, changed, K, semVars,
                   taskVars, outVars>>

\* faulty variant: the status tells whether anything was checked
ExitStatusChecked(st) == IF st.total_checked > 0 THEN 1 ELSE 0
\* lines 673-675
ExitStatus(st) == IF st.total_spam > 0 THEN 1 ELSE 0

\* lines 668-675: the run has returned its counts
Exit ==
    /\ main = "returned"
    /\ exit_status' = <<ExitStatus(stats[1])>>
    /\ main' = "exited"
    /\ UNCHANGED <<callVars, dirVars, mode, api_key, source, diff, changed, K, semVars,
                   taskVars, outVars>>

NextMain ==
    \/ ReadDiff
    \/ Next
    \/ Exit

SpecMain == InitMain /\ [][NextMain]_vars

(***************************************************************************)
(* main() in directory mode (lines 693-718): scan_locale_directory_async   *)
(* followed by write_summary_report, or write_summary_report alone with    *)
(* --summary-only; the program is invoked up to MaxRuns times on the same  *)
(* directories.  The classification of the entries of a locale, the run    *)
(* of scan_po_file_async, is one step: each translated entry gets a        *)
(* verdict.                                                                *)
(***************************************************************************)
\* the locales of the locale directory (po_file.parent.name, line 466)
DirLocales == {"de_DE", "fr_FR"}
\* the locale directories: some of the locales, each with up to two
\* translated entries (line 410)
DirTrees == UNION {[L -> 0..2] : L \in SUBSET DirLocales}

ReportPrefix == "vandalism_report_"
\* lines 385-389; a file name is its three parts
get_report_path(locale_name) == <<ReportPrefix, locale_name, ".json">>
\* faulty variant: no report is ever found
report_exists_never(output, locale_name) == FALSE
\* lines 392-396
report_exists(output, locale_name) == get_report_path(locale_name) \in DOMAIN output
\* lines 505 and 533
SummaryTxt == <<ReportPrefix, "summary", ".txt">>
SummaryJson == <<ReportPrefix, "summary", ".json">>

\* line 416: the i-th translated entry of a locale, flagged
SpamEntry(locale_name, i) == [locale |-> locale_name, original_str |-> i]
\* lines 431-437: what write_locale_report writes
LocaleReport(locale_name, spam_entries) ==
    [locale |-> locale_name, total_spam |-> Len(spam_entries), entries |-> spam_entries]

\* the output directories found by the first invocation: for each locale no
\* report, an empty report or a report with one entry
OutdirOf(c) ==
    [f \in {get_report_path(l) : l \in DOMAIN c} |->
        LocaleReport(f[2], [i \in 1..c[f[2]] |-> SpamEntry(f[2], i)])]
InitialOutdirs == {OutdirOf(c) : c \in UNION {[L -> 0..1] : L \in SUBSET DirLocales}}

\* the order of sorted() on the names that occur
StemOrder == <<"de_DE", "fr_FR", "summary">>
sorted_names(S) == SelectSeq(StemOrder, LAMBDA x : x \in S)

\* line 499: output_path.glob("vandalism_report_*.json"), sorted
GlobReports(output) ==
    LET found == {f \in DOMAIN output : f[1] = ReportPrefix /\ f[3] = ".json"}
        stems == sorted_names({f[2] : f \in found})
    IN  [i \in DOMAIN stems |-> <<ReportPrefix, stems[i], ".json">>]

\* lines 497-502
AllEntries(output) ==
    LET files == GlobReports(output)
    IN  Flatten([i \in DOMAIN files |-> output[files[i]].entries])

\* lines 492-547: the text summary and the JSON summary are written
write_summary_report(output) ==
    LET all_entries == AllEntries(output)
        with_txt == DictPut(output, SummaryTxt, [total_spam |-> Len(all_entries)])
    IN  DictPut(with_txt, SummaryJson,
                [total_spam |-> Len(all_entries), entries |-> all_entries])

InitDir ==
    /\ diff = <<>>
    /\ changed = <<>>
    /\ main = "start"
    /\ K = 1
    /\ value = 1
    /\ waiters = <<>>
    /\ pc = <<>>
    /\ attempts = <<>>
    /\ why = <<>>
    /\ classification = <<>>
    /\ ret = <<>>
    /\ outOfOrder = FALSE
    /\ sent = <<>>
    /\ inflight = <<>>
    /\ results = <<>>
    /\ spam_by_locale = EmptyDict
    /\ report = <<>>
    /\ stats = <<>>
    /\ call = [fn |-> "none"]
    /\ returned = <<>>
    /\ NoSteps
    /\ NoCli
    /\ lscan = NoLocale
    /\ force = FALSE
    /\ tree \in DirTrees
    /\ outdir \in InitialOutdirs
    /\ outdir0 = outdir
    /\ dmain = "idle"
    /\ cursor = 0
    /\ dstats = ZeroStats
    /\ invoked = [l \in DOMAIN tree |-> 0]
    /\ runs = 0

\* line 472: sorted(locales.keys())
SortedLocales == sorted_names(DOMAIN tree)

\* lines 697-709 and 453-471: main() calls scan_locale_directory_async
StartScan ==
    /\ dmain = "idle"
    /\ runs < MaxRuns
    /\ force' \in BOOLEAN
    /\ outdir0' = outdir
    /\ cursor' = 1
    /\ dstats' = ZeroStats
    /\ invoked' = [l \in DOMAIN tree |-> 0]
    /\ dmain' = "loop"
    /\ runs' = runs + 1
    /\ UNCHANGED <<callVars, cliVars, runVars, lscan, tree, outdir>>

\* lines 473-476: the locale has a report and force is not set
SkipLocale ==
    /\ dmain = "loop"
    /\ cursor <= Len(SortedLocales)
    /\ ~force /\ report_exists(outdir, SortedLocales[cursor])
    /\ dstats' = [dstats EXCEPT !.skipped = @ + 1]
    /\ cursor' = cursor + 1
    /\ UNCHANGED <<callVars, cliVars, runVars, lscan, force, tree, outdir, outdir0, dmain,
                   invoked, runs>>

\* lines 478-487: the entries of the locale are classified, one call for
\* each; flagged are the entries of the locale with a Spam verdict; the
\* report of the locale is written
ScanLocale(flagged) ==
    /\ dmain = "loop"
    /\ cursor <= Len(SortedLocales)
    /\ ~(~force /\ report_exists(outdir, SortedLocales[cursor]))
    /\ LET locale_name == SortedLocales[cursor]
           locale_spam ==
               SelectSeq([i \in 1..tree[locale_name] |-> SpamEntry(locale_name, i)],
                         LAMBDA e : e.original_str \in flagged)
       IN  /\ flagged \subseteq 1..tree[locale_name]
           /\ invoked' = [invoked EXCEPT ![locale_name] = tree[locale_name]]
           /\ outdir' = DictPut(outdir, get_report_path(locale_name),
                                LocaleReport(locale_name, locale_spam))
           /\ dstats' = [dstats EXCEPT !.scanned = @ + 1,
                                       !.total_spam = @ + Len(locale_spam)]
    /\ cursor' = cursor + 1
    /\ UNCHANGED <<callVars, cliVars, runVars, lscan, force, tree, outdir0, dmain, runs>>

\* line 489: the loop is over, the stats are returned
ScanReturn ==
    /\ dmain = "loop"
    /\ cursor > Len(SortedLocales)
    /\ dmain' = "scanned"
    /\ UNCHANGED <<callVars, cliVars, runVars, lscan, force, tree, outdir, outdir0, cursor,
                   dstats, invoked, runs>>

\* line 716: main() writes the summary after the scan
WriteSummary ==
    /\ dmain = "scanned"
    /\ outdir' = write_summary_report(outdir)
    /\ dmain' = "idle"
    /\ UNCHANGED <<callVars, cliVars, runVars, lscan, force, tree, outdir0, cursor, dstats,
                   invoked, runs>>

\* lines 693-695: main() with --summary-only
SummaryOnly ==
    /\ dmain = "idle"
    /\ runs < MaxRuns
    /\ outdir' = write_summary_report(outdir)
    /\ runs' = runs + 1
    /\ UNCHANGED <<callVars, cliVars, runVars, lscan, force, tree, outdir0, dmain, cursor,
                   dstats, invoked>>

NextDir ==
    \/ StartScan
    \/ SkipLocale
    \/ \E flagged \in SUBSET (1..2) : ScanLocale(flagged)
    \/ ScanReturn
    \/ WriteSummary
    \/ SummaryOnly

SpecDir == InitDir /\ [][NextDir]_vars

(***************************************************************************)
(* The run under fair scheduling: the event loop goes on as long as a task *)
(* can run, a delay can end or an attempt can end (the request has a total *)
(* timeout, line 354).                                                     *)
(***************************************************************************)
LiveNext ==
    \/ ScanDiff
    \/ \E i \in Tasks : Start(i)
    \/ \E i \in Tasks : Resume(i)
    \/ \E i \in Tasks, o \in LiveOutcomes : Respond(i, o)
    \/ \E i \in Tasks : Retry(i)
    \/ GatherDone
    \/ Report

Fairness == WF_vars(LiveNext)

LiveSpec == Init /\ [][LiveNext]_vars /\ Fairness

(***************************************************************************)
(* The helpers called on their own: _unescape_po, _extract_po_string_lines *)
(* and _extract_pairs_from_lines on a line sequence, and the processing of *)
(* one hunk by parse_po_diff.  Indexes of lines count from 1.              *)
(***************************************************************************)
\* a bare quoted string, as on a continuation line
QuotedLine(c) == <<Q>> \o c \o <<Q>>
\* a key line whose quote is not closed
UnterminatedLine == MsgidPrefix \o <<"a">>

\* the contents of the enumerated line sequences
ScanLineContents ==
    {MsgidLine(<<"a">>), MsgidLine(<<>>), MsgstrLine(<<"x">>), MsgstrLine(<<>>),
     QuotedLine(<<"c">>), CommentLine, UnterminatedLine}

\* longer line sequences: a value on two continuation lines followed by an
\* empty line, the file header in front of an entry, a value whose first
\* line ends with a backslash and whose second line starts with n
ExtraLineSeqs ==
    {<<MsgstrLine(<<>>), QuotedLine(<<"c", " ">>), QuotedLine(<<"d">>), <<>>>>,
     <<MsgidLine(<<>>), MsgstrLine(<<>>), QuotedLine(<<"c">>), <<>>,
       MsgidLine(<<"a">>), MsgstrLine(<<"x">>)>>,
     <<MsgstrLine(<<"x", BS>>), QuotedLine(<<"n">>), CommentLine>>,
     <<QuotedLine(<<"d">>), MsgstrLine(<<"x">>), MsgidLine(<<"a">>), QuotedLine(<<"c">>),
       CommentLine, QuotedLine(<<"c">>), <<>>, MsgstrLine(<<"x">>), QuotedLine(<<"d">>),
       MsgstrLine(<<"c">>)>>}

ScanLineSeqs == SeqsUpTo(ScanLineContents, MaxScanLines) \cup ExtraLineSeqs

\* the raw values: up to MaxTokens escape sequences, plain characters and
\* single backslashes
RawTokens ==
    {<<BS, BS>>, <<BS, "n">>, <<BS, "t">>, <<BS, Q>>, <<"a">>, <<"n">>, <<BS>>}
RawValues == {Flatten(ts) : ts \in SeqsUpTo(RawTokens, MaxTokens)}

\* the file header, whose value lines are the only changed lines
HunkHeader ==
    <<Line(" ", MsgidLine(<<>>)), Line(" ", MsgstrLine(<<>>)),
      Line("-", QuotedLine(<<"c">>)), Line("+", QuotedLine(<<"d">>))>>
\* a hunk cut inside an entry, after a key line whose quote is not closed
HunkTruncated ==
    <<Line(" ", MsgstrLine(<<"x">>)), Line("-", QuotedLine(<<"c">>)),
      Line("+", UnterminatedLine), Line("+", MsgidLine(<<"a">>))>>
ScanHunks == SeqsUpTo(HunkLines, MaxLines) \cup {HunkHeader, HunkTruncated}

Calls ==
    [fn : {"_unescape_po"}, s : RawValues]
    \cup UNION {[fn : {"_extract_po_string_lines"}, lines : {ls}, start : DOMAIN ls] :
                   ls \in ScanLineSeqs}
    \cup [fn : {"_extract_pairs_from_lines"}, lines : ScanLineSeqs]
    \cup [fn : {"parse_po_diff"}, current_locale : {"de_DE"}, hunk : ScanHunks]

InitScan ==
    /\ diff = <<>>
    /\ changed = <<>>
    /\ main = "start"
    /\ K = 1
    /\ value = 1
    /\ waiters = <<>>
    /\ pc = <<>>
    /\ attempts = <<>>
    /\ why = <<>>
    /\ classification = <<>>
    /\ ret = <<>>
    /\ outOfOrder = FALSE
    /\ sent = <<>>
    /\ inflight = <<>>
    /\ results = <<>>
    /\ spam_by_locale = EmptyDict
    /\ report = <<>>
    /\ stats = <<>>
    /\ call \in Calls
    /\ returned = <<>>
    /\ NoSteps
    /\ NoCli
    /\ NoDir

\* line 150
CallUnescape ==
    /\ call.fn = "_unescape_po"
    /\ returned = <<>>
    /\ returned' = <<unescape_po(call.s)>>
    /\ UNCHANGED <<call, scan, upd, runVars, cliVars, dirVars>>

\* lines 153-180
CallExtractString ==
    /\ call.fn = "_extract_po_string_lines"
    /\ returned = <<>>
    /\ returned' = <<extract_po_string_lines(call.lines, call.start)>>
    /\ UNCHANGED <<call, scan, upd, runVars, cliVars, dirVars>>

\* lines 183-203
CallExtractPairs ==
    /\ call.fn = "_extract_pairs_from_lines"
    /\ returned = <<>>
    /\ LET raised == RaisesFrom(call.lines, 1)
       IN  returned' = <<[raised |-> raised,
                          pairs |-> IF raised THEN <<>>
                                    ELSE extract_pairs_from_lines(call.lines)]>>
    /\ UNCHANGED <<call, scan, upd, runVars, cliVars, dirVars>>

\* lines 233-259: one turn of "for hunk in patched_file"
CallHunk ==
    /\ call.fn = "parse_po_diff"
    /\ returned = <<>>
    /\ LET plus_lines == PlusLines(call.hunk)
           minus_lines == MinusLines(call.hunk)
           raised == RaisesFrom(plus_lines, 1) \/ RaisesFrom(minus_lines, 1)
       IN  returned' = <<[plus_lines |-> plus_lines,
                          minus_lines |-> minus_lines,
                          raised |-> raised,
                          results |-> IF raised THEN <<>>
                                      ELSE HunkRecords(call.current_locale, call.hunk)]>>
    /\ UNCHANGED <<call, scan, upd, runVars, cliVars, dirVars>>

NextScan ==
    \/ CallUnescape
    \/ CallExtractString
    \/ CallExtractPairs
    \/ CallHunk

SpecScan == InitScan /\ [][NextScan]_vars

(***************************************************************************)
(* Properties of the run.                                                  *)
(***************************************************************************)
\* the tasks that hold a slot of the semaphore: inside "async with"
\* (posting or sleeping), or handed the slot by release() and not yet running
SlotHolders == {i \in Tasks : pc[i] \in {"woken", "posting", "sleeping"}}

\* C1: for every concurrency limit K >= 1 and every interleaving of
\* successes, failures and delays, the number of records that hold an
\* admission slot never exceeds K.
C1_AtMostKSlotHolders == Cardinality(SlotHolders) <= K

\* C1 witness: more records than slots, K >= 2 records are inside
\* "async with" and another one waits.
C1_Witness ==
    /\ K >= 2
    /\ Len(changed) > K
    /\ Cardinality({i \in Tasks : pc[i] \in {"posting", "sleeping"}}) = K
    /\ \E i \in Tasks : pc[i] = "waiting"

ScanReturned == main \in {"scanned", "returned"}

\* C2: when the dispatch of scan_diff_async completes, there is exactly one
\* result per change record, at the position of the record: each record has
\* a verdict, and its result is its own (locale, entry) when the verdict is
\* Spam and None when it is Genuine.
C2_OneResultPerRecord ==
    ScanReturned =>
        /\ Len(results) = Len(changed)
        /\ \A i \in DOMAIN changed :
            /\ classification[i] \in {"Genuine", "Spam"}
            /\ results[i] = IF classification[i] = "Spam"
                            THEN <<changed[i][1], Entry(changed[i])>>
                            ELSE None

\* C2 witness: the dispatch completed for MaxRecs records, every one of
\* which failed on its first attempts.
C2_Witness ==
    /\ main = "scanned"
    /\ Len(changed) = MaxRecs
    /\ \A i \in DOMAIN changed : attempts[i] = MaxAttempts

\* C3: if every record fails only finitely many times (from some point on
\* no record is in a retry delay), then under fair scheduling the run
\* completes with a verdict for every record.
C3_EventuallyCompletes ==
    (<>[](\A i \in Tasks : pc[i] # "sleeping")) =>
        <>(/\ main = "returned"
           /\ \A i \in DOMAIN changed : classification[i] \in {"Genuine", "Spam"})

\* C3 witness: a run with more records than slots has completed, after a
\* failed attempt.
C3_Witness ==
    /\ main = "returned"
    /\ Len(changed) > K
    /\ \E i \in Tasks : attempts[i] >= 1

\* an outcome the claims count as a failed attempt
IsFailure(o) == o.kind # "payload" \/ Normalize(o.raw) \notin {GenuineToken, SpamToken}

\* the outcomes that are failed attempts
FailureOutcomes == UNION {IF IsFailure(o) THEN {o} ELSE {} : o \in Outcomes}
\* the message contents that are neither token once trimmed and lowercased
UnrecognizedPayloads ==
    UNION {IF Normalize(p) \notin {GenuineToken, SpamToken} THEN {p} ELSE {}
               : p \in RawPayloads}

\* the step in which an attempt of task i ends in a failure; the task
\* leaves "posting" in every step that ends an attempt
FailedAttempt(i) ==
    /\ pc[i] = "posting"
    /\ pc'[i] # "posting"
    /\ \E o \in FailureOutcomes : Respond(i, o)
\* the step in which an attempt of task i ends with a message content that
\* is neither token
UnrecognizedAttempt(i) ==
    /\ pc[i] = "posting"
    /\ pc'[i] # "posting"
    /\ \E p \in UnrecognizedPayloads : Respond(i, [kind |-> "payload", raw |-> p])

\* C4: a failed attempt of whatever kind puts the record in the retry delay
\* without verdict or result, the run going on; from the delay the only step
\* of the record is the next attempt, which is possible whatever the number
\* of failed attempts.
C4_FailuresAreRetried ==
    [][\A i \in Tasks :
          /\ FailedAttempt(i) =>
                /\ pc'[i] = "sleeping"
                /\ classification'[i] = "none"
                /\ ret'[i] = None
                /\ main' = "gather"
          /\ pc[i] = "sleeping" =>
                /\ ENABLED Retry(i)
                /\ pc'[i] \in {"sleeping", "posting"}
                /\ classification'[i] = "none"
                /\ ret'[i] = None
                /\ main' = "gather"]_vars

\* C4 witness: a record is retried after a failed attempt while another
\* one is in the retry delay after a malformed body.
C4_Witness ==
    \E i, j \in Tasks :
        /\ pc[i] = "posting"
        /\ attempts[i] >= 1
        /\ pc[j] = "sleeping"
        /\ why[j] = "malformed"

\* C5: a response whose trimmed, lowercased payload is not exactly
\* "genuine" or "spam" gives no verdict: the attempt counts as failed and
\* the record goes to the retry delay.
C5_UnrecognizedPayloadIsRetried ==
    [][\A i \in Tasks :
          UnrecognizedAttempt(i) =>
              /\ pc'[i] = "sleeping"
              /\ why'[i] = "unrecognized"
              /\ classification'[i] = "none"
              /\ ret'[i] = None]_vars

\* C5 witness: a record is in the retry delay after an unrecognized payload.
C5_Witness == \E i \in Tasks : pc[i] = "sleeping" /\ why[i] = "unrecognized"

\* the records of a locale with a Spam verdict, in the order of parse_po_diff
SpamIndexes(locale) ==
    SelectSeq([i \in DOMAIN changed |-> i],
              LAMBDA i : changed[i][1] = locale /\ classification[i] = "Spam")

\* C6: in the report of scan_diff_async the spam entries of each locale
\* are in the order in which parse_po_diff produced their records,
\* whatever the order in which the classifier calls completed.
C6_ReportInRecordOrder ==
    ScanReturned =>
        \A l \in DOMAIN spam_by_locale :
            LET idx == SpamIndexes(l)
            IN  /\ Len(spam_by_locale[l]) = Len(idx)
                /\ \A k \in DOMAIN idx : spam_by_locale[l][k] = Entry(changed[idx[k]])

\* C6 witness: two records of one locale are both reported, the second
\* having completed before the first.
C6_Witness ==
    /\ ScanReturned
    /\ Len(changed) = 2
    /\ outOfOrder
    /\ \E l \in DOMAIN spam_by_locale : Len(spam_by_locale[l]) = 2

SpamRecords == {i \in DOMAIN changed : classification[i] = "Spam"}

\* C7: the report holds exactly the records whose verdict is Spam, each
\* under the locale of its record and no other, and no record whose verdict
\* is Genuine; the total spam count is the number of Spam verdicts.
C7_ReportIsExactlySpam ==
    /\ ScanReturned =>
        /\ DOMAIN spam_by_locale = {changed[i][1] : i \in SpamRecords}
        /\ \A l \in DOMAIN spam_by_locale :
            LET spam == {i \in SpamRecords : changed[i][1] = l}
            IN  /\ Len(spam_by_locale[l]) = Cardinality(spam)
                /\ Range(spam_by_locale[l]) = {Entry(changed[i]) : i \in spam}
        /\ \A i \in DOMAIN changed :
              classification[i] = "Genuine" =>
                  \A l \in DOMAIN spam_by_locale :
                      Entry(changed[i]) \notin Range(spam_by_locale[l])
    /\ main = "returned" =>
        /\ report[1].total_spam = Cardinality(SpamRecords)
        /\ report[1].entries = spam_by_locale
        /\ stats[1].total_spam = Cardinality(SpamRecords)
        /\ stats[1].spam_entries = spam_by_locale

\* C7 witness: a completed run with Spam verdicts in two locales and a
\* Genuine verdict in one of them.
C7_Witness ==
    /\ main = "returned"
    /\ Cardinality(DOMAIN spam_by_locale) = 2
    /\ \E i \in DOMAIN changed :
          classification[i] = "Genuine" /\ changed[i][1] \in DOMAIN spam_by_locale

(***************************************************************************)
(* Properties of parse_po_diff.                                            *)
(***************************************************************************)
\* the two sides of a hunk, stated on the line types
PostImage(hunk) ==
    LET kept == SelectSeq(hunk, LAMBDA l : l.tag # "-")
    IN  [i \in DOMAIN kept |-> RStripNL(kept[i].value)]
PreImage(hunk) ==
    LET kept == SelectSeq(hunk, LAMBDA l : l.tag # "+")
    IN  [i \in DOMAIN kept |-> RStripNL(kept[i].value)]
PostEntries(hunk) == extract_pairs_from_lines(PostImage(hunk))
PreEntries(hunk) == extract_pairs_from_lines(PreImage(hunk))

\* the hunks of the files of a diff whose path names a locale
EligibleHunks(d) ==
    UNION {{<<fi, hi>> : hi \in DOMAIN d[fi].hunks} :
              fi \in {f \in DOMAIN d : file_match(d[f].path)}}
HunkAt(d, pos) == d[pos[1]].hunks[pos[2]]
LocaleAt(d, pos) == current_locale(d[pos[1]].path)

\* the post-image entries of a hunk that are non-empty and differ from the
\* value the pre-image lookup holds for their key, as records of a locale
ChangedEntries(locale, hunk) ==
    LET lookup == old_lookup(hunk)
        sel == SelectSeq(PostEntries(hunk),
                         LAMBDA e : /\ e[1] # <<>>
                                    /\ e[2] # <<>>
                                    /\ e[2] # DictGet(lookup, e[1], <<>>))
    IN  [i \in DOMAIN sel |-> <<locale, sel[i][1], sel[i][2]>>]

\* C8: every change record emitted by parse_po_diff has a non-empty new
\* value, and comes from a hunk of a file of its locale in which it is a
\* post-image entry whose value differs from the value the pre-image lookup
\* of that hunk holds for its key (an absent key counting as empty).
C8_RecordsNonEmptyAndChanged ==
    main = "parsed" =>
        LET hunks == EligibleHunks(diff)
            post == [pos \in hunks |-> Range(PostEntries(HunkAt(diff, pos)))]
            lookup == [pos \in hunks |-> old_lookup(HunkAt(diff, pos))]
        IN  \A r \in Range(changed) :
                /\ r[3] # <<>>
                /\ \E pos \in hunks :
                    /\ r[1] = LocaleAt(diff, pos)
                    /\ <<r[2], r[3]>> \in post[pos]
                    /\ r[3] # DictGet(lookup[pos], r[2], <<>>)

\* C8 witness: a record was emitted for a translation that was modified,
\* the pre-image lookup holding another non-empty value for its key.
C8_Witness ==
    /\ main = "parsed"
    /\ Len(diff) = 1
    /\ Len(diff[1].hunks) = 1
    /\ \E r \in Range(changed) :
          /\ r[3] = <<"y">>
          /\ DictGet(old_lookup(diff[1].hunks[1]), r[2], <<>>) = <<"x">>

\* C9: each post-image entry, of any hunk of any eligible file, that has a
\* non-empty key and a non-empty value differing from the pre-image lookup
\* value of its key yields exactly one change record with the locale of the
\* file path, the key and the new value: every record occurs in the output
\* as many times as there are such entries, and there are no other records.
C9_NothingChangedIsMissed ==
    main = "parsed" =>
        LET hunks == EligibleHunks(diff)
            exp == [pos \in hunks |->
                       ChangedEntries(LocaleAt(diff, pos), HunkAt(diff, pos))]
            records == UNION {Range(exp[pos]) : pos \in hunks}
        IN  /\ Len(changed) = SumOver([pos \in hunks |-> Len(exp[pos])], hunks)
            /\ \A r \in records :
                  Count(changed, r) =
                      SumOver([pos \in hunks |-> Count(exp[pos], r)], hunks)

\* C9 witness: a diff of two files of different locales, the first with two
\* hunks, each hunk yielding a record.
C9_Witness ==
    /\ main = "parsed"
    /\ Len(diff) = 2
    /\ Len(diff[1].hunks) = 2
    /\ Len(changed) = 3
    /\ changed[1][1] # changed[3][1]

\* C10 (the claim as stated): for a post-image entry (k, v) whose key k
\* carries the same value v in the pre-image of its hunk, no change record
\* is emitted: every emitted record comes from a hunk of its locale in which
\* it is a post-image entry and not a pre-image entry.
C10_UnchangedEntryNotEmitted ==
    main = "parsed" =>
        LET hunks == EligibleHunks(diff)
            post == [pos \in hunks |-> Range(PostEntries(HunkAt(diff, pos)))]
            pre == [pos \in hunks |-> Range(PreEntries(HunkAt(diff, pos)))]
        IN  \A r \in Range(changed) :
                \E pos \in hunks :
                    /\ r[1] = LocaleAt(diff, pos)
                    /\ <<r[2], r[3]>> \in post[pos]
                    /\ <<r[2], r[3]>> \notin pre[pos]

\* C11: no change record is emitted for a post-image entry whose value is
\* empty, whether the entry is new and untranslated or its translation was
\* removed; there are at most as many records as post-image entries with a
\* non-empty value.
C11_EmptyValueNotEmitted ==
    main = "parsed" =>
        LET hunks == EligibleHunks(diff)
            post == [pos \in hunks |-> PostEntries(HunkAt(diff, pos))]
            filled == [pos \in hunks |->
                          Len(SelectSeq(post[pos], LAMBDA e : e[2] # <<>>))]
        IN  /\ \A pos \in hunks : \A e \in Range(post[pos]) :
                  e[2] = <<>> =>
                      <<LocaleAt(diff, pos), e[1], e[2]>> \notin Range(changed)
            /\ Len(changed) <= SumOver(filled, hunks)

\* C11 witness: a diff was parsed in which one hunk adds an untranslated
\* entry and another hunk empties a translation that the pre-image holds.
C11_Witness ==
    /\ main = "parsed"
    /\ \E pos \in EligibleHunks(diff) :
          \E e \in Range(PostEntries(HunkAt(diff, pos))) :
              /\ e[2] = <<>>
              /\ e[1] \notin DOMAIN old_lookup(HunkAt(diff, pos))
    /\ \E pos \in EligibleHunks(diff) :
          \E e \in Range(PostEntries(HunkAt(diff, pos))) :
              /\ e[2] = <<>>
              /\ DictGet(old_lookup(HunkAt(diff, pos)), e[1], <<>>) # <<>>

\* the naming convention of a per-locale translation file, stated on the
\* segments of a path: a directory whose name ends with "locale", a
\* directory named by the locale, a file whose name starts with the word
\* "electrum.po"
IsLocaleFilePath(path) ==
    \E p \in 1..(Len(path) - 2) :
        /\ EndsWithLocale(path[p])
        /\ path[p + 1] # ""
        /\ StartsWithElectrumPo(path[p + 2])

\* C13: a diff none of whose file paths is a per-locale translation file
\* (among them the diff without files, which the empty and the
\* whitespace-only text give) yields the empty sequence.
C13_NoEligibleFileNoRecords ==
    (main = "parsed" /\ \A f \in DOMAIN diff : ~IsLocaleFilePath(diff[f].path))
        => changed = <<>>

\* C13 witness: a diff of two files was parsed, neither an electrum.po of a
\* locale, whose hunks add or modify translations.
C13_Witness ==
    /\ main = "parsed"
    /\ Len(diff) = 2
    /\ diff[1].path # diff[2].path
    /\ \A f \in DOMAIN diff :
          /\ ~IsLocaleFilePath(diff[f].path)
          /\ HunksRecords(<<>>, diff[f].hunks) # <<>>

\* C14: the records are ordered by file order in the diff, then hunk order
\* within the file, then entry order within the post-image of the hunk: the
\* output is the concatenation, in that order, of the changed post-image
\* entries of each hunk of each eligible file.
C14_RecordsInDiffOrder ==
    main = "parsed" =>
        changed =
            Flatten([f \in DOMAIN diff |->
                IF file_match(diff[f].path)
                THEN Flatten([h \in DOMAIN diff[f].hunks |->
                         ChangedEntries(current_locale(diff[f].path), diff[f].hunks[h])])
                ELSE <<>>])

\* C14 witness: a diff of two files was parsed, the first with two hunks of
\* which the first yields two records; all four records differ.
C14_Witness ==
    /\ main = "parsed"
    /\ Len(diff) = 2
    /\ Len(diff[1].hunks) = 2
    /\ file_match(diff[1].path)
    /\ Len(HunkRecords(current_locale(diff[1].path), diff[1].hunks[1])) = 2
    /\ Len(changed) = 4
    /\ Cardinality(Range(changed)) = 4

(***************************************************************************)
(* Properties of the helpers called on their own.                          *)
(***************************************************************************)
Returned(fn) == call.fn = fn /\ returned # <<>>

\* C12: no entry with an empty key (the file header) is in the output of
\* _extract_pairs_from_lines, and none is in the change records of a hunk,
\* whatever the lines are.
C12_NoEmptyKey ==
    /\ Returned("_extract_pairs_from_lines") =>
          \A e \in Range(returned[1].pairs) : e[1] # <<>>
    /\ Returned("parse_po_diff") =>
          \A r \in Range(returned[1].results) : r[2] # <<>>

\* C12 witness: a hunk was processed in which the header (msgid "" and
\* msgstr "") is context and the only changed lines are the lines of its
\* value, which differ between the two sides.
C12_Witness ==
    /\ Returned("parse_po_diff")
    /\ Len(call.hunk) >= 3
    /\ call.hunk[1] = Line(" ", MsgidLine(<<>>))
    /\ call.hunk[2] = Line(" ", MsgstrLine(<<>>))
    /\ \A i \in 3..Len(call.hunk) : call.hunk[i].tag # " "
    /\ extract_po_string_lines(returned[1].plus_lines, 2).value
          # extract_po_string_lines(returned[1].minus_lines, 2).value

\* C15: the pre-image of a hunk is its removed and context lines in their
\* order and the post-image its added and context lines in their order: no
\* removed line is in the post-image, no added line in the pre-image, and
\* every context line is in both.
C15_SidesOfTheHunk ==
    Returned("parse_po_diff") =>
        /\ returned[1].plus_lines = PostImage(call.hunk)
        /\ returned[1].minus_lines = PreImage(call.hunk)
        /\ Len(returned[1].plus_lines)
              = Cardinality({i \in DOMAIN call.hunk : call.hunk[i].tag \in {"+", " "}})
        /\ Len(returned[1].minus_lines)
              = Cardinality({i \in DOMAIN call.hunk : call.hunk[i].tag \in {"-", " "}})

\* C15 witness: a hunk with a context, a removed and an added line, all of
\* different content, was processed.
C15_Witness ==
    /\ Returned("parse_po_diff")
    /\ Len(call.hunk) = 3
    /\ {call.hunk[i].tag : i \in 1..3} = {" ", "-", "+"}
    /\ Cardinality({call.hunk[i].value : i \in 1..3}) = 3

\* a marker line: a key or value marker followed by a quoted string
IsMarkerLine(line) ==
    /\ StartsWith(line, MsgidPrefix) \/ StartsWith(line, MsgstrPrefix)
    /\ \E p \in (Len(MsgstrPrefix) + 1)..Len(line) : line[p] = Q
\* the content of a marker line: what stands between its first and its
\* last double quote
MarkerContent(line) ==
    LET first == CHOOSE p \in 1..Len(line) :
                     line[p] = Q /\ \A q \in 1..(p - 1) : line[q] # Q
        last == CHOOSE p \in 1..Len(line) :
                     line[p] = Q /\ \A q \in (p + 1)..Len(line) : line[q] # Q
    IN  SubSeq(line, first + 1, last - 1)
\* a line that is entirely a quoted string
IsBareQuoted(line) == Len(line) >= 2 /\ Head(line) = Q /\ line[Len(line)] = Q

KeyOf(lines, i) == extract_po_string_lines(lines, i).value
\* the key lines with a non-empty key, in their order
KeyLines(lines) ==
    SelectSeq([i \in 1..Len(lines) |-> i],
              LAMBDA i : StartsWith(lines[i], MsgidPrefix) /\ KeyOf(lines, i) # <<>>)
\* a value-marker line follows the key line i before the next key line and
\* before the end of the input
HasValueMarker(lines, i) ==
    \E j \in (i + 1)..Len(lines) :
        /\ StartsWith(lines[j], MsgstrPrefix)
        /\ \A k \in (i + 1)..(j - 1) : ~StartsWith(lines[k], MsgidPrefix)

\* C17 (the claim as stated): an entry whose key line is not followed by a
\* value-marker line before the next key line or the end of the input is
\* not output: the output has one entry per key line with a non-empty key
\* that has a value-marker line.
C17_EntryWithoutValueSkipped ==
    Returned("_extract_pairs_from_lines") =>
        LET keys == KeyLines(call.lines)
        IN  Len(returned[1].pairs)
              = Len(SelectSeq(keys, LAMBDA i : HasValueMarker(call.lines, i)))

\* C17 (amended): an entry whose key line is not followed by a value-marker
\* line before the next key line or the end of the input is output with the
\* empty value: the output has one entry per key line with a non-empty key,
\* in order, with that key, and with the empty value when the key line has
\* no value-marker line.
C17_EntryWithoutValueIsEmpty ==
    Returned("_extract_pairs_from_lines") =>
        LET keys == KeyLines(call.lines)
            pairs == returned[1].pairs
        IN  /\ Len(pairs) = Len(keys)
            /\ \A k \in DOMAIN keys :
                  /\ pairs[k][1] = KeyOf(call.lines, keys[k])
                  /\ ~HasValueMarker(call.lines, keys[k]) => pairs[k][2] = <<>>

\* C17 witness: the scanner returned on lines with a key line that is
\* followed by the next key line, which has a value; both are output, the
\* first with the empty value.
C17_Witness ==
    /\ Returned("_extract_pairs_from_lines")
    /\ Len(KeyLines(call.lines)) = 2
    /\ ~HasValueMarker(call.lines, KeyLines(call.lines)[1])
    /\ HasValueMarker(call.lines, KeyLines(call.lines)[2])
    /\ Len(returned[1].pairs) = 2
    /\ returned[1].pairs[1][2] = <<>>
    /\ returned[1].pairs[2][2] # <<>>

\* the number of backslashes at the end of u is even: no backslash of u is
\* left to form an escape sequence with what follows u
Closed(u) ==
    LET run == {k \in 0..Len(u) : \A j \in (Len(u) - k + 1)..Len(u) : u[j] = BS}
    IN  (SetMax(run) % 2) = 0
\* what the four escape sequences stand for
EscapeMeaning(c) ==
    IF c = BS THEN BS ELSE IF c = "n" THEN NL ELSE IF c = "t" THEN TAB ELSE Q

\* C18: _unescape_po replaces the four escape sequences in one pass from
\* left to right and does not scan replaced text again.  Wherever the raw
\* value is cut behind a complete prefix u: an escaped backslash followed
\* by n, t or a quote gives a backslash followed by that character; an
\* escape sequence gives its character; any other character, also a
\* backslash in front of another character or at the end, stays; the rest
\* is unescaped on its own.
C18_SinglePassUnescape ==
    Returned("_unescape_po") =>
        LET s == call.s
            text == returned[1]
        IN  \A k \in 0..(Len(s) - 1) :
                LET u == SubSeq(s, 1, k)
                    c == s[k + 1]
                    d == IF k + 2 <= Len(s) THEN s[k + 2] ELSE ""
                    e == IF k + 3 <= Len(s) THEN s[k + 3] ELSE ""
                    After(n) == unescape_po(SubSeq(s, k + n + 1, Len(s)))
                IN  Closed(u) =>
                        /\ (c = BS /\ d = BS /\ e \in {"n", "t", Q}) =>
                              text = unescape_po(u) \o <<BS, e>> \o After(3)
                        /\ (c = BS /\ d \in {BS, "n", "t", Q}) =>
                              text = unescape_po(u) \o <<EscapeMeaning(d)>> \o After(2)
                        /\ (c # BS \/ d \notin {BS, "n", "t", Q}) =>
                              text = unescape_po(u) \o <<c>> \o After(1)

\* C18 witness: a raw value with an escaped backslash followed by n and then
\* an escaped newline was unescaped to a backslash, n and a newline.
C18_Witness ==
    /\ Returned("_unescape_po")
    /\ call.s = <<BS, BS, "n", BS, "n">>
    /\ returned[1] = <<BS, "n", NL>>

RECURSIVE WellFormedFrom(_, _)
\* the raw value is made of the four escape sequences and of characters
\* that need no escaping
WellFormedFrom(s, i) ==
    IF i > Len(s) THEN TRUE
    ELSE IF s[i] = BS
         THEN i < Len(s) /\ s[i + 1] \in {BS, "n", "t", Q} /\ WellFormedFrom(s, i + 2)
         ELSE s[i] \notin {Q, NL, TAB} /\ WellFormedFrom(s, i + 1)

\* re-escaping: backslash, newline, tab and quote each go back to their
\* two-character sequence
escape_po(text) ==
    Flatten([i \in DOMAIN text |->
        IF text[i] = BS THEN <<BS, BS>>
        ELSE IF text[i] = NL THEN <<BS, "n">>
        ELSE IF text[i] = TAB THEN <<BS, "t">>
        ELSE IF text[i] = Q THEN <<BS, Q>>
        ELSE <<text[i]>>])

\* C19: for a raw value made of the four escape sequences, in any
\* combination, and of plain characters, re-escaping the unescaped value
\* gives the raw value back.
C19_RoundTrip ==
    (Returned("_unescape_po") /\ WellFormedFrom(call.s, 1)) =>
        escape_po(returned[1]) = call.s

\* C19 witness: a raw value that holds each of the four escape sequences
\* was unescaped.
C19_Witness ==
    /\ Returned("_unescape_po")
    /\ WellFormedFrom(call.s, 1)
    /\ \A c \in {BS, "n", "t", Q} :
          \E k \in 0..((Len(call.s) \div 2) - 1) :
              call.s[2 * k + 1] = BS /\ call.s[2 * k + 2] = c
    /\ Len(returned[1]) = 4

\* the lines that start as key lines
MsgidLineCount(lines) ==
    Cardinality({i \in DOMAIN lines : StartsWith(lines[i], MsgidPrefix)})

\* C20: the entry scanner and the processing of a hunk raise on no line
\* sequence, however malformed or truncated; such input only gives fewer
\* entries or none: never more entries than key lines, never more records
\* than key lines of the post-image.
C20_ScannerNeverRaises ==
    /\ Returned("_extract_pairs_from_lines") =>
          /\ ~returned[1].raised
          /\ Len(returned[1].pairs) <= MsgidLineCount(call.lines)
    /\ Returned("parse_po_diff") =>
          /\ ~returned[1].raised
          /\ Len(returned[1].results) <= MsgidLineCount(returned[1].plus_lines)

\* C20 witness: the scanner returned on a value line without key, a key
\* line whose quote is not closed and a last key line without value, with
\* the one entry of the last line.
C20_Witness ==
    /\ Returned("_extract_pairs_from_lines")
    /\ Len(call.lines) = 3
    /\ StartsWith(call.lines[1], MsgstrPrefix)
    /\ call.lines[2] = UnterminatedLine
    /\ StartsWith(call.lines[3], MsgidPrefix)
    /\ Len(returned[1].pairs) = 1

(***************************************************************************)
(* Duplicate keys in a hunk.                                               *)
(***************************************************************************)
\* the value of the last entry of pairs with key k, empty when there is none
LastValue(pairs, k) ==
    LET idx == {i \in DOMAIN pairs : pairs[i][1] = k}
    IN  IF idx = {} THEN <<>> ELSE pairs[SetMax(idx)][2]

\* C28: the pre-image lookup of a hunk holds for each key the value of its
\* last occurrence in the pre-image; the post-image entries keep duplicate
\* keys, in input order, and each of them is compared against that one
\* value: the records of the hunk are, in order, the post-image entries
\* with a non-empty value that differs from it.
C28_LastWinsLookup ==
    (/\ main = "parsed"
     /\ Len(diff) = 1
     /\ file_match(diff[1].path)
     /\ Len(diff[1].hunks) = 1) =>
        LET hunk == diff[1].hunks[1]
            pre == PreEntries(hunk)
            post == PostEntries(hunk)
            lookup == old_lookup(hunk)
            sel == SelectSeq(post, LAMBDA e : /\ e[2] # <<>>
                                              /\ e[2] # LastValue(pre, e[1]))
        IN  /\ DOMAIN lookup = {pre[i][1] : i \in DOMAIN pre}
            /\ \A k \in DOMAIN lookup : lookup[k] = LastValue(pre, k)
            /\ changed = [i \in DOMAIN sel |->
                              <<current_locale(diff[1].path), sel[i][1], sel[i][2]>>]

\* C28 witness: the key "a" occurs twice on both sides of the hunk, with
\* the values "x" and then "y"; the first entry differs from the last-wins
\* old value "y" and is a record, the second one does not.
C28_Witness ==
    /\ main = "parsed"
    /\ diff = <<File(PathDe, <<HunkDuplicateKey>>)>>
    /\ PostEntries(HunkDuplicateKey) = <<<<(<<"a">>), (<<"x">>)>>, <<(<<"a">>), (<<"y">>)>>>>
    /\ old_lookup(HunkDuplicateKey)[<<"a">>] = <<"y">>
    /\ changed = <<<<"de_DE", (<<"a">>), (<<"x">>)>>>>

(***************************************************************************)
(* Admission, abort and slot accounting of the run.                        *)
(***************************************************************************)
\* task i has been admitted: it has posted its first request
HasStarted(i) == pc[i] \in {"posting", "sleeping", "done"}

\* C21: queued records are admitted in submission order: the record that a
\* freed slot is handed to is the earliest-submitted among the waiting
\* ones, and a record posts its first request only when every
\* earlier-submitted record has posted its own.
C21_AdmittedInSubmissionOrder ==
    [][\A i \in Tasks :
          /\ (pc[i] = "waiting" /\ pc'[i] = "woken") =>
                \A j \in Tasks : pc[j] = "waiting" => i <= j
          /\ (~HasStarted(i) /\ pc'[i] = "posting") =>
                \A j \in Tasks : j < i => HasStarted(j)]_vars

\* C21 witness: with one slot, the first record has its verdict, the second
\* one has been handed the slot and has posted its request, the third one
\* still waits.
C21_Witness ==
    /\ K = 1
    /\ Len(pc) >= 3
    /\ pc[1] = "done"
    /\ pc[2] = "posting"
    /\ pc[3] = "waiting"
    /\ waiters = <<3>>

\* every change record has its verdict
AllVerdicts ==
    /\ Tasks = DOMAIN ParsedRunDiffs[diff]
    /\ \A i \in Tasks : pc[i] = "done" /\ classification[i] \in {"Genuine", "Spam"}

\* C22: the diff report is written and the counts are returned only once
\* every change record has its verdict; a run aborted while a record is
\* pending has written no report and returned no counts.
C22_AllOrNothing ==
    /\ (report # <<>> \/ stats # <<>>) => (main = "returned" /\ AllVerdicts)
    /\ (main = "aborted" /\ ~AllVerdicts) => (report = <<>> /\ stats = <<>>)

\* C22 witness: the run was aborted when one record had a Spam verdict and
\* another one was still pending.
C22_Witness ==
    /\ main = "aborted"
    /\ \E i, j \in Tasks :
          /\ pc[i] = "done"
          /\ classification[i] = "Spam"
          /\ pc[j] = "cancelled"
    /\ report = <<>>

\* the run has not completed: it is still at or before gather, no report
\* is written and no counts are returned
RunPending == main \in {"start", "gather"} /\ report = <<>> /\ stats = <<>>

\* C23: if the classifier never returns a recognized response for some
\* record (at every moment of the run a record is without classification;
\* a classification once given stays), the run never completes: at every
\* moment, whatever the number of retries, it is still in gather, without
\* report, counts or error.
C23_BrokenClassifierHangs ==
    [](main = "start" \/ \E n \in Tasks : classification[n] = "none")
        => []RunPending

\* C23 witness: a record has failed MaxAttempts times and is in the retry
\* delay once more, while another record has its verdict and the run is
\* still in gather.
C23_Witness ==
    /\ RunPending
    /\ \E n, j \in Tasks :
          /\ attempts[n] = MaxAttempts
          /\ pc[n] = "sleeping"
          /\ classification[n] = "none"
          /\ pc[j] = "done"

\* C29: a record keeps its slot through its whole retry sequence: a failed
\* attempt and the retry that follows the delay leave the free slots and
\* the queue as they are; a queued record leaves the queue only in a step
\* in which an in-flight record obtains a recognized response; and as long
\* as no record has obtained one, only the first K records have started.
C29_SlotKeptThroughRetries ==
    [][/\ \A i \in Tasks :
            /\ (FailedAttempt(i) \/ Retry(i)) =>
                  /\ value' = value
                  /\ waiters' = waiters
                  /\ \A j \in Tasks : pc[j] = "waiting" => pc'[j] = "waiting"
            /\ (pc[i] = "waiting" /\ pc'[i] # "waiting") =>
                  \E j \in Tasks :
                      /\ pc[j] = "posting"
                      /\ pc'[j] = "done"
                      /\ classification'[j] \in {"Genuine", "Spam"}
       /\ (\A i \in DOMAIN pc' : pc'[i] # "done") =>
             \A j \in DOMAIN pc' :
                 j > K => pc'[j] \in {"created", "waiting"}]_vars

\* C29 witness: all K slots are held by records in the retry delay after
\* MaxAttempts failed attempts, and another record is still queued.
C29_Witness ==
    /\ Cardinality({i \in Tasks : pc[i] = "sleeping" /\ attempts[i] = MaxAttempts}) = K
    /\ value = 0
    /\ \E j \in Tasks : pc[j] = "waiting"

\* the positions of a task before it has a slot, and those in which it
\* holds one
BeforeSlot == {"created", "waiting"}
HoldingSlot == {"woken", "posting", "sleeping"}

\* the free slots plus the records holding one are the K slots; after the
\* run no slot is held
SlotsAddUp ==
    /\ value + Cardinality({i \in Tasks : pc[i] \in HoldingSlot}) = K
    /\ value \in 0..K
    /\ main \in {"scanned", "returned"} => value = K

\* C30: slot accounting is exact.  In every reachable state the free slots
\* plus the records holding a slot are K, and all K slots are free when the
\* run completes.  Each record takes a slot once, coming from before any
\* slot, and gives it back once, on its verdict: the slot goes to the first
\* waiter or becomes free, and the record never holds a slot again.
C30_SlotAccountingExact ==
    /\ []SlotsAddUp
    /\ [][\A i \in Tasks :
             /\ (pc[i] \notin HoldingSlot /\ pc'[i] \in HoldingSlot) =>
                   pc[i] \in BeforeSlot
             /\ pc'[i] \in BeforeSlot => pc[i] \in BeforeSlot
             /\ pc[i] = "done" => pc'[i] = "done"
             /\ (pc[i] \in HoldingSlot /\ pc'[i] \notin HoldingSlot) =>
                   /\ pc'[i] = "done"
                   /\ classification'[i] \in {"Genuine", "Spam"}
                   /\ \/ /\ value' = value + 1
                         /\ \A j \in Tasks \ {i} : pc'[j] = pc[j]
                      \/ /\ value' = value
                         /\ \E j \in Tasks :
                               /\ pc[j] = "waiting"
                               /\ pc'[j] = "woken"
                               /\ \A k \in Tasks \ {i, j} : pc'[k] = pc[k]]_vars

\* C30 witness: the run of more records than slots has completed after a
\* failed attempt, and all K slots are free again.
C30_Witness ==
    /\ main = "returned"
    /\ Len(pc) > K
    /\ value = K
    /\ \E i \in Tasks : attempts[i] >= 1
    /\ waiters = <<>>

(***************************************************************************)
(* main() in diff mode.                                                    *)
(***************************************************************************)
\* a request has been posted to the classifier
ClassifierInvoked == \E i \in Tasks : HasStarted(i)

\* C24: a fatal configuration error, that is no classifier credentials or
\* a diff source that cannot be read, ends the program with an error
\* before the first request to the classifier.
C24_FatalConfigurationAborts ==
    (api_key = NoKey \/ source \in SourceErrors) =>
        /\ ~ClassifierInvoked
        /\ main \in {"cli", "exited"}
        /\ main = "exited" => exit_status = <<1>>

\* a record of the completed run was flagged as spam
Flagged == stats # <<>> /\ \E i \in Tasks : classification[i] = "Spam"

\* C25: in diff mode the exit status is non-zero exactly when the diff
\* source could not be obtained or the completed run flagged a record as
\* spam, and zero otherwise; an empty diff exits with zero without any
\* request to the classifier.
C25_ExitStatus ==
    main = "exited" =>
        /\ exit_status \in {<<0>>, <<1>>}
        /\ exit_status = <<1>> <=> (source \in SourceErrors \/ Flagged)
        /\ (source = "text" /\ diff = EmptyDiff) =>
              (exit_status = <<0>> /\ Tasks = {} /\ stats = <<>>)

\* C25 witness: the program has exited with status 0 after a completed run
\* that checked a record and flagged none.
C25_Witness ==
    /\ main = "exited"
    /\ exit_status = <<0>>
    /\ stats # <<>>
    /\ Tasks # {}
    /\ \A i \in Tasks : classification[i] = "Genuine"

(***************************************************************************)
(* main() in directory mode.                                               *)
(***************************************************************************)
\* the locales the loop of the current scan has dealt with
Processed == {SortedLocales[i] : i \in 1..(cursor - 1)}
\* the locale had a report when the current scan started
HadReport(l) == get_report_path(l) \in DOMAIN outdir0
\* the locales the current scan has to leave alone
ToSkip == {l \in DOMAIN tree : ~force /\ HadReport(l)}

\* C26: without force, scan_locale_directory_async makes no classifier
\* call for a locale whose report exists and leaves that report as it is;
\* it scans every other locale, and with force every locale.  Scanned plus
\* skipped is the number of locales, every locale has a report after the
\* scan, and a scan without force that finds a report for every locale
\* scans nothing and changes no report.
C26_ForceAndSkip ==
    dmain \in {"loop", "scanned"} =>
        /\ \A l \in Processed \cap ToSkip :
              /\ invoked[l] = 0
              /\ outdir[get_report_path(l)] = outdir0[get_report_path(l)]
        /\ \A l \in Processed \ ToSkip :
              /\ invoked[l] = tree[l]
              /\ get_report_path(l) \in DOMAIN outdir
              /\ outdir[get_report_path(l)].total_spam <= tree[l]
        /\ dstats.skipped = Cardinality(Processed \cap ToSkip)
        /\ dstats.scanned = Cardinality(Processed \ ToSkip)
        /\ dmain = "scanned" =>
              /\ dstats.scanned + dstats.skipped = Cardinality(DOMAIN tree)
              /\ \A l \in DOMAIN tree : get_report_path(l) \in DOMAIN outdir
              /\ ToSkip = DOMAIN tree =>
                    /\ dstats.scanned = 0
                    /\ \A l \in DOMAIN tree : invoked[l] = 0
                    /\ \A l \in DOMAIN tree :
                          outdir[get_report_path(l)] = outdir0[get_report_path(l)]

\* C26 witness: the second invocation, without force, has skipped both
\* locales after the first one scanned them and flagged two entries of one.
C26_Witness ==
    /\ dmain = "scanned"
    /\ runs = 2
    /\ ~force
    /\ dstats = [scanned |-> 0, skipped |-> 2, total_spam |-> 0]
    /\ SummaryJson \in DOMAIN outdir
    /\ \E l \in DOMAIN tree : outdir[get_report_path(l)].total_spam = 2

\* the reports of the locales in the output directory, sorted
LocaleReportFiles(output) ==
    LET stems == sorted_names({f[2] : f \in DOMAIN output} \cap DirLocales)
    IN  [i \in DOMAIN stems |-> get_report_path(stems[i])]
\* the entries of the reports of the locales
LocaleReportEntries(output) ==
    LET files == LocaleReportFiles(output)
    IN  Flatten([i \in DOMAIN files |-> output[files[i]].entries])

\* C27: the summary written by write_summary_report holds exactly the
\* entries of the reports of the locales present in the output directory,
\* and its total_spam is the sum of their entry counts, on every
\* invocation, a summary of an earlier invocation being present or not.
C27_SummaryIsSumOfReports ==
    [][(WriteSummary \/ SummaryOnly) =>
          LET files == LocaleReportFiles(outdir)
          IN  /\ outdir'[SummaryJson].entries = LocaleReportEntries(outdir)
              /\ outdir'[SummaryJson].total_spam =
                    SumOver([i \in DOMAIN files |-> outdir[files[i]].total_spam],
                            DOMAIN files)]_vars

(***************************************************************************)
(* C31: the attempts of one record.                                        *)
(***************************************************************************)
\* the step in which an attempt of task i ends in a failure: the reason of
\* the failure is recorded
FailureRecorded(i) == pc[i] = "posting" /\ why'[i] # "none" /\ why'[i] # why[i]
\* the step in which task i posts a request
PostStep(i) == inflight'[i] > inflight[i]

\* C31: for each record, a failed attempt is followed by the retry delay,
\* with no request of the record in flight, and the delay only by the next
\* attempt; a request is posted only when none of the record is in flight,
\* and it is the request made from the key, value and locale of the record,
\* so that all the requests posted for a record are the same one.
C31_AttemptsOfARecord ==
    /\ [](\A i \in Tasks : inflight[i] \in {0, 1} /\ Cardinality(sent[i]) <= 1)
    /\ [][\A i \in Tasks :
             /\ FailureRecorded(i) => pc'[i] = "sleeping" /\ inflight'[i] = 0
             /\ pc[i] = "sleeping" =>
                    /\ inflight[i] = 0
                    /\ pc'[i] \in {"sleeping", "posting"}
                    /\ pc'[i] = "posting" => PostStep(i)
             /\ PostStep(i) =>
                    /\ inflight[i] = 0
                    /\ pc[i] \in {"created", "woken", "sleeping"}
                    /\ pc'[i] = "posting"
                    /\ sent'[i] = {Payload(changed[i])}
                    /\ changed' = changed]_vars

\* C31 witness: a record is in its second attempt, the same single request
\* posted twice, while another record with another request is in the delay.
C31_Witness ==
    \E i, j \in Tasks :
        /\ pc[i] = "posting"
        /\ attempts[i] >= 1
        /\ inflight[i] = 1
        /\ sent[i] = {Payload(changed[i])}
        /\ pc[j] = "sleeping"
        /\ Payload(changed[j]) # Payload(changed[i])

(***************************************************************************)
(* C32: the verdict of a record, and what a step of one record touches.    *)
(***************************************************************************)
\* the message contents that are one of the two tokens once trimmed and
\* lowercased
RecognizedPayloads ==
    UNION {IF Normalize(p) \in {GenuineToken, SpamToken} THEN {p} ELSE {}
               : p \in RawPayloads}
\* the verdict the claim gives to a recognized response
VerdictOf(response) == IF response = GenuineToken THEN "Genuine" ELSE "Spam"
\* what a task keeps for itself
LocalState(j) == <<attempts[j], why[j], classification[j], ret[j], sent[j], inflight[j]>>
\* task i takes a step of its own: its position changes, and not only
\* because release() of another task handed it a slot
Acts(i) == pc'[i] # pc[i] /\ ~(pc[i] = "waiting" /\ pc'[i] = "woken")

\* C32: a record gets its verdict in the step that ends an attempt of it
\* with a recognized response, the verdict is the one of that response
\* whatever the failed attempts before and whatever the state of the other
\* records, and it never changes afterwards; a step of one record leaves
\* the attempts, failures, verdict, result and requests of every other
\* record as they were, and their position too but for the waiter that the
\* semaphore admits.
C32_VerdictFromOwnResponse ==
    [][\A i \in Tasks :
          /\ classification'[i] # classification[i] =>
                 /\ classification[i] = "none"
                 /\ pc[i] = "posting"
                 /\ \E p \in RecognizedPayloads :
                        Respond(i, [kind |-> "payload", raw |-> p])
                 /\ \A p \in RecognizedPayloads :
                        Respond(i, [kind |-> "payload", raw |-> p]) =>
                            /\ classification'[i] = VerdictOf(Normalize(p))
                            /\ ret'[i] = IF VerdictOf(Normalize(p)) = "Spam"
                                         THEN <<changed[i][1], Entry(changed[i])>>
                                         ELSE None
          /\ Acts(i) =>
                 \A j \in Tasks \ {i} :
                     /\ LocalState(j)' = LocalState(j)
                     /\ \/ pc'[j] = pc[j]
                        \/ pc[j] = "waiting" /\ pc'[j] = "woken"]_vars

\* C32 witness: a record got Genuine after a failed attempt of its own,
\* while an earlier record got Spam and a later one is in the retry delay.
C32_Witness ==
    \E i, j, k \in Tasks :
        /\ j < i
        /\ classification[i] = "Genuine"
        /\ attempts[i] >= 1
        /\ classification[j] = "Spam"
        /\ pc[k] = "sleeping"

(***************************************************************************)
(* C33: admission is work-conserving.                                      *)
(***************************************************************************)
\* the records that have got a slot at some time
Admitted == {i \in Tasks : pc[i] \notin BeforeSlot}
\* a record is queued while fewer than K records hold a slot
QueuedWithFreeSlot ==
    /\ \E i \in Tasks : pc[i] \in BeforeSlot
    /\ Cardinality(SlotHolders) < K

\* C33: under fair scheduling, whenever a record is queued and fewer than K
\* records hold a slot, that situation ends, and it ends only by the
\* admission of one more record: a queued record is eventually admitted, and
\* a free slot never stays unused while records are pending.
C33_WorkConserving ==
    /\ QueuedWithFreeSlot ~> ~QueuedWithFreeSlot
    /\ [][QueuedWithFreeSlot /\ ~QueuedWithFreeSlot' =>
              /\ Admitted \subseteq Admitted'
              /\ Cardinality(Admitted') = Cardinality(Admitted) + 1]_vars

\* C33 witness: one record holds a slot, a second slot is free and a
\* record is still queued.
C33_Witness ==
    /\ QueuedWithFreeSlot
    /\ K >= 2
    /\ \E i \in Tasks : pc[i] = "posting"

(***************************************************************************)
(* C34: the hunks of a diff are processed each on its own.                 *)
(***************************************************************************)
\* the diff made of the one hunk at position pos, in its file
HunkAlone(d, f, h) == <<File(d[f].path, <<d[f].hunks[h]>>)>>
\* the entries of a sequence of pairs that have a key and a value
Translated(pairs) == {e \in Range(pairs) : e[1] # <<>> /\ e[2] # <<>>}
\* the keys of a sequence of pairs
KeysOf(pairs) == {e[1] : e \in Range(pairs)}

\* C34: the records of a diff are the records of each of its hunks taken
\* alone, under the path of its file, in the order of the files and of the
\* hunks; and a translated entry that one hunk of a file removes and that
\* another hunk of the file adds with the same value, its key not being in
\* the pre-image of that other hunk, is among the records.
C34_HunkLocal ==
    main = "parsed" =>
        /\ changed =
              Flatten([f \in DOMAIN diff |->
                  Flatten([h \in DOMAIN diff[f].hunks |->
                      parse_po_diff(HunkAlone(diff, f, h))])])
        /\ \A a, b \in EligibleHunks(diff) :
              a[1] = b[1] /\ a # b =>
                  LET removed == Translated(PreEntries(HunkAt(diff, a)))
                                     \ Range(PostEntries(HunkAt(diff, a)))
                      added == {e \in Translated(PostEntries(HunkAt(diff, b))) :
                                   e[1] \notin KeysOf(PreEntries(HunkAt(diff, b)))}
                  IN  \A e \in removed \cap added :
                          <<LocaleAt(diff, b), e[1], e[2]>> \in Range(changed)

\* C34 witness: a file of three hunks; the first adds a translated entry,
\* the last removes the same entry, and the record of the entry is emitted.
C34_Witness ==
    /\ main = "parsed"
    /\ Len(diff) = 1
    /\ Len(diff[1].hunks) = 3
    /\ \E e \in Translated(PostEntries(diff[1].hunks[1])) :
          /\ e \in Translated(PreEntries(diff[1].hunks[3]))
          /\ e \notin Range(PostEntries(diff[1].hunks[3]))
          /\ changed = <<<<current_locale(diff[1].path), e[1], e[2]>>>>

(***************************************************************************)
(* C35: lines that belong to no entry.                                     *)
(***************************************************************************)
\* the value-marker line of the key line i: the first value-marker line
\* after it, no key line standing in between
ValueMarkerOf(lines, i) ==
    SetMin({j \in (i + 1)..Len(lines) :
               /\ StartsWith(lines[j], MsgstrPrefix)
               /\ \A k \in (i + 1)..(j - 1) : ~StartsWith(lines[k], MsgidPrefix)})
\* the value of the value-marker line j: the content of the line and of the
\* bare quoted lines right after it, unescaped
ValueAt(lines, j) ==
    LET stops == {k \in (j + 1)..(Len(lines) + 1) :
                     k = Len(lines) + 1 \/ ~IsBareQuoted(lines[k])}
        next == SetMin(stops)
        parts == [k \in 1..(next - j - 1) |->
                     SubSeq(lines[j + k], 2, Len(lines[j + k]) - 1)]
    IN  IF IsMarkerLine(lines[j])
        THEN unescape_po(MarkerContent(lines[j]) \o Flatten(parts))
        ELSE <<>>
\* the lines from the first key line on
FromFirstKey(lines) ==
    LET keys == {i \in 1..Len(lines) : StartsWith(lines[i], MsgidPrefix)}
    IN  IF keys = {} THEN <<>> ELSE SubSeq(lines, SetMin(keys), Len(lines))
\* a line that is neither a key line nor a value-marker line stands
\* between the lines i and j
NonEntryBetween(lines, i, j) ==
    \E k \in (i + 1)..(j - 1) :
        ~StartsWith(lines[k], MsgidPrefix) /\ ~StartsWith(lines[k], MsgstrPrefix)

\* C35: the entry of a key line with a non-empty key has the value of the
\* first value-marker line after it when no key line stands in between,
\* whatever other lines do; the lines before the first key line change
\* nothing, and without any key line there is no entry, so a value-marker
\* or continuation line not preceded by a key line yields no entry: there
\* are exactly as many entries as key lines with a non-empty key.
C35_NonEntryLinesSkipped ==
    Returned("_extract_pairs_from_lines") =>
        LET lines == call.lines
            keys == KeyLines(lines)
            pairs == returned[1].pairs
        IN  /\ Len(pairs) = Len(keys)
            /\ \A k \in DOMAIN keys :
                  HasValueMarker(lines, keys[k]) =>
                      pairs[k] = <<KeyOf(lines, keys[k]),
                                   ValueAt(lines, ValueMarkerOf(lines, keys[k]))>>
            /\ pairs = extract_pairs_from_lines(FromFirstKey(lines))
            /\ (\A i \in 1..Len(lines) : ~StartsWith(lines[i], MsgidPrefix)) =>
                  pairs = <<>>

\* C35 witness: a value-marker line and a bare quoted line stand before the
\* first key line; the key line is followed by a continuation line, by lines
\* that belong to no entry and by its value-marker line with a continuation
\* line; a value-marker line without key line ends the input.  The one
\* entry has the key and the value of the two lines each.
C35_Witness ==
    /\ Returned("_extract_pairs_from_lines")
    /\ StartsWith(call.lines[2], MsgstrPrefix)
    /\ Len(KeyLines(call.lines)) = 1
    /\ NonEntryBetween(call.lines, KeyLines(call.lines)[1],
                       ValueMarkerOf(call.lines, KeyLines(call.lines)[1]))
    /\ returned[1].pairs = <<<<<<"a", "c">>, <<"x", "d">>>>>>

(***************************************************************************)
(* _extract_pairs_from_lines step by step: one step for each test of a     *)
(* loop condition and for each call and return of                          *)
(* _extract_po_string_lines.  The cursor counts the lines from 1, so that  *)
(* i <= Len(lines) is the "i < len(lines)" of the code.                    *)
(***************************************************************************)
\* lines 184-185 on each of the line sequences
ScanStarts ==
    {[where |-> "outer", lines |-> ls, i |-> 1, start |-> 0, target |-> "none",
      msgid |-> <<>>, pairs |-> <<>>, keyed |-> <<>>, iter |-> 0] : ls \in ScanLineSeqs}

InitLoop ==
    /\ diff = <<>>
    /\ changed = <<>>
    /\ main = "start"
    /\ K = 1
    /\ value = 1
    /\ waiters = <<>>
    /\ pc = <<>>
    /\ attempts = <<>>
    /\ why = <<>>
    /\ classification = <<>>
    /\ ret = <<>>
    /\ outOfOrder = FALSE
    /\ sent = <<>>
    /\ inflight = <<>>
    /\ results = <<>>
    /\ spam_by_locale = EmptyDict
    /\ report = <<>>
    /\ stats = <<>>
    /\ call = [fn |-> "none"]
    /\ returned = <<>>
    /\ scan \in ScanStarts
    /\ upd = [fn |-> "none"]
    /\ NoCli
    /\ NoDir

\* faulty variant: a line that is no key line leaves the cursor where it is
NextLineSame(i) == i
\* line 202: i += 1
NextLine(i) == i + 1

\* lines 186-189 and 201-202: the test of the outer loop; a key line starts
\* an entry with the call of _extract_po_string_lines on it, any other line
\* is passed
OuterLoop ==
    /\ scan.where = "outer"
    /\ LET lines == scan.lines
           i == scan.i
       IN  scan' = IF i > Len(lines)
                   THEN [scan EXCEPT !.where = "done"]
                   ELSE IF StartsWith(lines[i], MsgidPrefix)
                   THEN [scan EXCEPT !.where = "first_match", !.start = i,
                                     !.target = "msgid", !.iter = i,
                                     !.keyed = Append(@, i)]
                   ELSE [scan EXCEPT !.i = NextLine(i), !.iter = i]
    /\ UNCHANGED <<call, returned, upd, runVars, cliVars, dirVars>>

\* _extract_po_string_lines returns (text, next) to line 190, or to line
\* 192 or 198, where the pair is appended when it has a key (lines 199-200)
StringReturns(text, next) ==
    IF scan.target = "msgid"
    THEN [scan EXCEPT !.where = "after_msgid", !.msgid = text, !.i = next]
    ELSE [scan EXCEPT !.where = "outer", !.i = next,
                      !.pairs = IF KeepPair(scan.msgid)
                                THEN Append(@, <<scan.msgid, text>>)
                                ELSE @]

\* lines 160-164: the keyword line is read; lines[start] past the last line
\* is an IndexError
FirstMatch ==
    /\ scan.where = "first_match"
    /\ LET lines == scan.lines
           start == scan.start
       IN  scan' = IF start > Len(lines)
                   THEN [scan EXCEPT !.where = "raised"]
                   ELSE IF ~SearchQuotedMatches(lines[start])
                   THEN StringReturns(<<>>, start + 1)
                   ELSE [scan EXCEPT !.where = "continuation", !.i = start + 1]
    /\ UNCHANGED <<call, returned, upd, runVars, cliVars, dirVars>>

\* lines 172-180: one test of the loop over the continuation lines
Continuation ==
    /\ scan.where = "continuation"
    /\ LET lines == scan.lines
           i == scan.i
       IN  scan' = IF i <= Len(lines) /\ ContMatches(lines[i])
                   THEN [scan EXCEPT !.i = i + 1]
                   ELSE StringReturns(
                            unescape_po(SearchQuotedGroup(lines[scan.start])
                                            \o JoinGroups(lines, scan.start + 1, i)),
                            i)
    /\ UNCHANGED <<call, returned, upd, runVars, cliVars, dirVars>>

\* lines 191-194: the value-marker line follows the key at once, or is
\* looked for
AfterMsgid ==
    /\ scan.where = "after_msgid"
    /\ scan' = IF AtMsgstr(scan.lines, scan.i)
               THEN [scan EXCEPT !.where = "first_match", !.start = scan.i,
                                 !.target = "msgstr"]
               ELSE [scan EXCEPT !.where = "skip"]
    /\ UNCHANGED <<call, returned, upd, runVars, cliVars, dirVars>>

\* lines 195-200: one test of the loop that passes the lines that are
\* neither a value-marker line nor a key line
Skip ==
    /\ scan.where = "skip"
    /\ LET lines == scan.lines
           i == scan.i
       IN  scan' = IF /\ i <= Len(lines)
                      /\ ~StartsWith(lines[i], MsgstrPrefix)
                      /\ ~StartsWith(lines[i], MsgidPrefix)
                   THEN [scan EXCEPT !.i = i + 1]
                   ELSE IF AtMsgstr(lines, i)
                   THEN [scan EXCEPT !.where = "first_match", !.start = i,
                                     !.target = "msgstr"]
                   ELSE [scan EXCEPT !.where = "outer",
                                     !.pairs = IF KeepPair(scan.msgid)
                                               THEN Append(@, <<scan.msgid, <<>>>>)
                                               ELSE @]
    /\ UNCHANGED <<call, returned, upd, runVars, cliVars, dirVars>>

NextLoop ==
    \/ OuterLoop
    \/ FirstMatch
    \/ Continuation
    \/ AfterMsgid
    \/ Skip

\* the interpreter goes on as long as the function has a next step
SpecLoop == InitLoop /\ [][NextLoop]_vars /\ WF_vars(NextLoop)

(***************************************************************************)
(* C36: the scanner terminates.                                            *)
(***************************************************************************)
\* the cursor is on a line or just past the last one
CursorInBounds == scan.i \in 1..(Len(scan.lines) + 1)
\* the lines handled as key lines are handled in increasing order, each once
KeyedOnce ==
    \A a, b \in DOMAIN scan.keyed : a < b => scan.keyed[a] < scan.keyed[b]
\* at the test of the outer loop the cursor is past the line on which the
\* iteration before started
OuterAdvanced == (scan.where = "outer" /\ scan.iter # 0) => scan.i > scan.iter

\* C36: on every finite line sequence the scanner reaches its end.  The
\* cursor never moves back, every turn of the two inner loops (continuation
\* lines, lines passed while looking for the value) moves it forward by
\* one, every turn of the outer loop ends with the cursor past the line it
\* started on, the cursor never goes beyond the position after the last
\* line, no read is out of bounds, and no line is handled twice as a key
\* line.  At the end the pairs are those of extract_pairs_from_lines.
C36_ScannerTerminates ==
    /\ <>(scan.where = "done")
    /\ [](CursorInBounds /\ KeyedOnce /\ OuterAdvanced /\ scan.where # "raised")
    /\ [](scan.where = "done" => scan.pairs = extract_pairs_from_lines(scan.lines))
    /\ [][/\ scan'.i >= scan.i
           /\ (scan'.where = scan.where /\ scan.where \in {"continuation", "skip"}) =>
                  scan'.i = scan.i + 1
           /\ scan'.lines = scan.lines]_vars

\* C36 witness: the scanner reached its end on a sequence on which the
\* three loops all turned: a key line with a continuation line, a line
\* passed while looking for the value, and the value-marker line; the
\* result is the one of _extract_pairs_from_lines.
C36_Witness ==
    /\ scan.where = "done"
    /\ scan.i = Len(scan.lines) + 1
    /\ Len(scan.lines) >= 7
    /\ Len(scan.keyed) = 1
    /\ scan.pairs = <<<<<<"a", "c">>, <<"x", "d">>>>>>
    /\ scan.pairs = extract_pairs_from_lines(scan.lines)

(***************************************************************************)
(* C37: the run without change records, and the counts of a run.           *)
(***************************************************************************)
\* parse_po_diff yields no change record for the diff of the run
NoRecords == ParsedRunDiffs[diff] = <<>>

\* C37: when the diff has no change record the scan makes no task, so no
\* classifier invocation, and no slot is ever taken, and the run still
\* ends, with a report of zero spam and no entry; in every run that has
\* ended total_checked is the number of change records and total_spam is
\* the number of records with the Spam verdict, between 0 and total_checked.
C37_EmptyRunAndCounts ==
    /\ NoRecords => <>(main = "returned")
    /\ [](NoRecords =>
             /\ Tasks = {}
             /\ value = K
             /\ waiters = <<>>
             /\ main = "returned" =>
                    /\ report = <<[total_spam |-> 0, entries |-> EmptyDict]>>
                    /\ stats[1].total_spam = 0)
    /\ [](main = "returned" =>
             /\ stats[1].total_checked = Len(changed)
             /\ stats[1].total_spam = Cardinality(SpamRecords)
             /\ stats[1].total_spam \in 0..stats[1].total_checked
             /\ report[1].total_spam = stats[1].total_spam)

\* C37 witness: the run on a diff of two files without change record has
\* ended; nothing was checked and the report is empty.
C37_Witness ==
    /\ main = "returned"
    /\ Len(diff) = 2
    /\ changed = <<>>
    /\ pc = <<>>
    /\ value = K
    /\ stats = <<[total_checked |-> 0, total_spam |-> 0, spam_entries |-> EmptyDict]>>
    /\ report[1].total_spam = 0

(***************************************************************************)
(* scan_locale_directory_async entry by entry, with an operator interrupt. *)
(* The files of a locale are scanned one after another (lines 481-483),    *)
(* the entries of a file get their verdicts in any order, and the report   *)
(* of the locale is written after its last file (line 485).  An interrupt  *)
(* ends the program where it is; the directories stay as they are.         *)
(***************************************************************************)
\* line 469, locales[locale_name]: the translated entries of each .po file
\* of the locale; a locale with two translated entries has two files
LocaleFiles(n) == [k \in 1..(IF n = 0 THEN 1 ELSE n) |-> IF n = 0 THEN 0 ELSE 1]

\* lines 478-479: the locale is not skipped, its scan begins
BeginLocale ==
    /\ dmain = "loop"
    /\ cursor <= Len(SortedLocales)
    /\ ~(~force /\ report_exists(outdir, SortedLocales[cursor]))
    /\ lscan' = [lscan EXCEPT !.file = 1, !.verdicts = 0, !.spam_entries = <<>>,
                              !.locale_spam = <<>>]
    /\ dmain' = "locale"
    /\ UNCHANGED <<callVars, cliVars, runVars, force, tree, outdir, outdir0, cursor,
                   dstats, invoked, runs>>

\* lines 412-417: one more entry of the file gets its verdict
Verdict(spam) ==
    /\ dmain = "locale"
    /\ LET locale_name == SortedLocales[cursor]
           files == LocaleFiles(tree[locale_name])
       IN  /\ lscan.file <= Len(files)
           /\ lscan.verdicts < files[lscan.file]
           /\ invoked' = [invoked EXCEPT ![locale_name] = @ + 1]
           /\ lscan' = [lscan EXCEPT
                  !.verdicts = @ + 1,
                  !.spam_entries =
                      IF spam
                      THEN Append(@, SpamEntry(locale_name, invoked[locale_name] + 1))
                      ELSE @]
    /\ UNCHANGED <<callVars, cliVars, runVars, force, tree, outdir, outdir0, dmain,
                   cursor, dstats, runs>>

\* faulty variant: the report of the locale is written after each file
FileDoneWriting ==
    /\ dmain = "locale"
    /\ LET locale_name == SortedLocales[cursor]
           files == LocaleFiles(tree[locale_name])
       IN  /\ lscan.file <= Len(files)
           /\ lscan.verdicts = files[lscan.file]
           /\ lscan' = [lscan EXCEPT !.file = @ + 1, !.verdicts = 0,
                                     !.spam_entries = <<>>,
                                     !.locale_spam = @ \o lscan.spam_entries]
           /\ outdir' = DictPut(outdir, get_report_path(locale_name),
                                LocaleReport(locale_name,
                                             lscan.locale_spam \o lscan.spam_entries))
    /\ UNCHANGED <<callVars, cliVars, runVars, force, tree, outdir0, dmain, cursor,
                   dstats, invoked, runs>>
\* lines 419-420 and 482-483: every entry of the file has its verdict,
\* gather returns and the flagged entries are added to those of the locale
FileDone ==
    /\ dmain = "locale"
    /\ LET locale_name == SortedLocales[cursor]
           files == LocaleFiles(tree[locale_name])
       IN  /\ lscan.file <= Len(files)
           /\ lscan.verdicts = files[lscan.file]
           /\ lscan' = [lscan EXCEPT !.file = @ + 1, !.verdicts = 0,
                                     !.spam_entries = <<>>,
                                     !.locale_spam = @ \o lscan.spam_entries]
    /\ UNCHANGED <<callVars, cliVars, runVars, force, tree, outdir, outdir0, dmain,
                   cursor, dstats, invoked, runs>>

\* lines 485-487: after the last file the report of the locale is written
WriteLocaleReport ==
    /\ dmain = "locale"
    /\ LET locale_name == SortedLocales[cursor]
       IN  /\ lscan.file > Len(LocaleFiles(tree[locale_name]))
           /\ outdir' = DictPut(outdir, get_report_path(locale_name),
                                LocaleReport(locale_name, lscan.locale_spam))
           /\ dstats' = [dstats EXCEPT !.scanned = @ + 1,
                                       !.total_spam = @ + Len(lscan.locale_spam)]
           /\ lscan' = [lscan EXCEPT
                  !.file = 0, !.locale_spam = <<>>,
                  !.interrupted = IF @ = locale_name THEN "none" ELSE @,
                  !.stale = IF lscan.interrupted = locale_name THEN FALSE ELSE @]
    /\ cursor' = cursor + 1
    /\ dmain' = "loop"
    /\ UNCHANGED <<callVars, cliVars, runVars, force, tree, outdir0, invoked, runs>>

\* the operator interrupts the program during the scan or before the
\* summary is written; nothing more is written
Interrupt ==
    /\ dmain \in {"loop", "locale", "scanned"}
    /\ dmain' = "idle"
    /\ lscan' = IF dmain = "locale"
                THEN [lscan EXCEPT
                         !.interrupted = SortedLocales[cursor],
                         !.stale = report_exists(outdir, SortedLocales[cursor])]
                ELSE lscan
    /\ UNCHANGED <<callVars, cliVars, runVars, force, tree, outdir, outdir0, cursor,
                   dstats, invoked, runs>>

NextResume ==
    \/ StartScan
    \/ SkipLocale
    \/ BeginLocale
    \/ \E spam \in BOOLEAN : Verdict(spam)
    \/ FileDone
    \/ WriteLocaleReport
    \/ ScanReturn
    \/ WriteSummary
    \/ Interrupt

SpecResume == InitDir /\ [][NextResume]_vars

(***************************************************************************)
(* C38: reports and interrupts.                                            *)
(***************************************************************************)
\* every translated entry of every file of the locale has a verdict
ScannedCompletely(l) == invoked[l] = tree[l]
\* the step writes or changes the report of the locale
ReportWritten(l) ==
    /\ get_report_path(l) \in DOMAIN outdir'
    /\ \/ get_report_path(l) \notin DOMAIN outdir
       \/ outdir'[get_report_path(l)] # outdir[get_report_path(l)]

\* the locales are scanned one after another in sorted order, a report is
\* written only for the locale of the cursor and only after every entry of
\* every file of it has a verdict, and a report exists only for a locale
\* that this run has scanned completely or that had its report before
ReportsOnlyAfterFullScan ==
    /\ [](\A l \in DOMAIN tree :
             /\ invoked[l] \in 0..tree[l]
             /\ (invoked[l] > 0 /\ dmain \in {"loop", "locale", "scanned"}) =>
                    \/ l \in Processed
                    \/ dmain = "locale" /\ l = SortedLocales[cursor]
             /\ report_exists(outdir, l) =>
                    \/ HadReport(l)
                    \/ l \in Processed /\ ScannedCompletely(l))
    /\ [][\A l \in DOMAIN tree :
             ReportWritten(l) =>
                 /\ dmain = "locale"
                 /\ l = SortedLocales[cursor]
                 /\ ScannedCompletely(l)
                 /\ lscan.file > Len(LocaleFiles(tree[l]))]_vars

\* C38 (the claim as stated): reports are written only after the full scan
\* of their locale, so after an interrupt a report exists only for locales
\* scanned completely, and a later run without force never skips the
\* locale that was being scanned: it scans it again.
C38_InterruptedLocaleRescanned ==
    /\ ReportsOnlyAfterFullScan
    /\ [][SkipLocale => SortedLocales[cursor] # lscan.interrupted]_vars

\* C38 (amended): reports are written only after the full scan of their
\* locale, so after an interrupt a report exists only for locales scanned
\* completely, by this run or by an earlier one.  The locale that was being
\* scanned has no report, and a later run without force scans it again,
\* unless the interrupted run was forced and found a report of an earlier
\* run for it: that report is still there, and a later run without force
\* skips the locale.
C38_InterruptedLocaleRescannedUnlessStale ==
    /\ ReportsOnlyAfterFullScan
    /\ [][(Interrupt /\ dmain = "locale") =>
              \/ ~report_exists(outdir', SortedLocales[cursor])
              \/ /\ force
                 /\ HadReport(SortedLocales[cursor])
                 /\ outdir'[get_report_path(SortedLocales[cursor])]
                        = outdir0[get_report_path(SortedLocales[cursor])]]_vars
    /\ [][(SkipLocale /\ SortedLocales[cursor] = lscan.interrupted) => lscan.stale]_vars
    /\ [][(BeginLocale /\ ~force) => ~report_exists(outdir, SortedLocales[cursor])]_vars

\* C38 witness: the second run, without force, has scanned completely and
\* written the report of the locale in which the first run was interrupted
\* after one of its two files, and is now past it.
C38_Witness ==
    /\ runs = 2
    /\ ~force
    /\ dmain = "loop"
    /\ cursor = 2
    /\ lscan.interrupted = "none"
    /\ tree[SortedLocales[1]] = 2
    /\ ~HadReport(SortedLocales[1])
    /\ invoked[SortedLocales[1]] = 2
    /\ outdir[get_report_path(SortedLocales[1])].total_spam = 1

(***************************************************************************)
(* update.py: the regex screen of the downloaded translations.  A text is  *)
(* a sequence of characters; each regex is computed as re.search computes  *)
(* it on the text.                                                         *)
(***************************************************************************)
Letters == {"a", "b", "c", "h", "k", "o", "p", "s", "t", "x", "Q", "Z"}
Digits == {"0", "1", "3", "7"}
\* \w under (?a) and on the texts used here: letters, digits and "_"
WordChars == Letters \cup Digits \cup {"_"}
\* \S: anything but whitespace
IsNonSpace(c) == c # " "
IsAlnum(c) == c \in Letters \cup Digits

\* the text has the characters of lit from position i on
HasAt(text, i, lit) ==
    /\ i >= 1
    /\ i + Len(lit) - 1 <= Len(text)
    /\ \A k \in 1..Len(lit) : text[i + k - 1] = lit[k]
\* every character of text[i..j] satisfies the class
AllIn(text, i, j, class) == \A k \in i..j : text[k] \in class

\* line 30, ([13]|bc1)[a-zA-Z0-9]{30,}
BITCOIN_ADDRESS_REGEXP(text) ==
    \E i \in 1..Len(text) :
        \E lit \in {<<"1">>, <<"3">>, <<"b", "c", "1">>} :
            /\ HasAt(text, i, lit)
            /\ i + Len(lit) + 29 <= Len(text)
            /\ \A k \in (i + Len(lit))..(i + Len(lit) + 29) : IsAlnum(text[k])

\* line 31, [\w.+-]+@[\w-]+\.[\w.-]+
EMAIL_ADDRESS_REGEXP(text) ==
    \E at \in 2..Len(text) :
        /\ text[at] = "@"
        /\ text[at - 1] \in WordChars \cup {".", "+", "-"}
        /\ \E dot \in (at + 2)..(Len(text) - 1) :
              /\ text[dot] = "."
              /\ AllIn(text, at + 1, dot - 1, WordChars \cup {"-"})
              /\ text[dot + 1] \in WordChars \cup {".", "-"}

\* line 33, \S+\.\S*\w+\S*/\S+: without whitespace, a character, later a
\* ".", later a word character, later a "/" and one more character
URL1_REGEXP(text) ==
    \E first \in 1..Len(text) : \E last \in first..Len(text) :
        /\ \A k \in first..last : IsNonSpace(text[k])
        /\ \E dot \in (first + 1)..last : \E w \in (dot + 1)..last :
              \E slash \in (w + 1)..(last - 1) :
                  /\ text[dot] = "."
                  /\ text[w] \in WordChars
                  /\ text[slash] = "/"

\* line 35, http(s){0,1}://
URL2_REGEXP(text) ==
    \E i \in 1..Len(text) :
        \/ HasAt(text, i, <<"h", "t", "t", "p", ":", "/", "/">>)
        \/ HasAt(text, i, <<"h", "t", "t", "p", "s", ":", "/", "/">>)

\* the end of the run of word characters that starts at i
RECURSIVE WordEnd(_, _)
WordEnd(text, i) ==
    IF i + 1 <= Len(text) /\ text[i + 1] \in WordChars THEN WordEnd(text, i + 1) ELSE i

\* lines 37-44: at least 16 word characters follow (the lookahead), and
\* the word from here on has a letter and later a digit, or a digit and
\* later a letter
MIXED_LETTERS_AND_DIGITS_WORD_REGEXP(text) ==
    \E i \in 1..Len(text) :
        /\ i + 15 <= Len(text)
        /\ AllIn(text, i, i + 15, WordChars)
        /\ \E a \in i..WordEnd(text, i) : \E b \in i..WordEnd(text, i) :
              text[a] \in Letters /\ text[b] \in Digits

\* lines 172-178 and 181: the names of the regexes that match the text
MatchingRegexes(text) ==
    (IF BITCOIN_ADDRESS_REGEXP(text) THEN {"BITCOIN_ADDRESS_REGEXP"} ELSE {})
    \cup (IF EMAIL_ADDRESS_REGEXP(text) THEN {"EMAIL_ADDRESS_REGEXP"} ELSE {})
    \cup (IF URL1_REGEXP(text) THEN {"URL1_REGEXP"} ELSE {})
    \cup (IF URL2_REGEXP(text) THEN {"URL2_REGEXP"} ELSE {})
    \cup (IF MIXED_LETTERS_AND_DIGITS_WORD_REGEXP(text)
          THEN {"MIXED_LETTERS_AND_DIGITS_WORD_REGEXP"} ELSE {})

\* lines 168-188: some regex matches the msgstr of some entry of the file
detect_malicious_stuff_in_po_file(pofile) ==
    \E e \in 1..Len(pofile.entries) : MatchingRegexes(pofile.entries[e]) # {}

Rep(c, n) == [k \in 1..n |-> c]
\* translations
TextOk == <<"o", "k">>
TextVersion == <<"b", "c", "1", " ", "o", "k", ".">>
TextUrl2 == <<"h", "t", "t", "p", "s", ":", "/", "/", "x">>
TextEmail == <<"a", "@", "b", ".", "c">>
TextUrl1 == <<"a", ".", "c", "o", "/", "x">>
TextAddress == <<"o", "k", " ", "3">> \o Rep("Q", 30)
TextMixed == <<"0", "x">> \o Rep("b", 14)
TextLongWord == Rep("b", 16) \o <<" ", "7">>

\* the .po files that the directory can hold
PoFiles ==
    { [fname |-> "cs_CZ", entries |-> <<>>],
      [fname |-> "de_DE", entries |-> <<TextOk, TextVersion>>],
      [fname |-> "es_ES", entries |-> <<TextOk, TextUrl2>>],
      [fname |-> "fr_FR", entries |-> <<TextEmail>>],
      [fname |-> "it_IT", entries |-> <<TextUrl1, TextOk>>],
      [fname |-> "ja_JP", entries |-> <<TextAddress>>],
      [fname |-> "ko_KR", entries |-> <<TextMixed, TextLongWord>>],
      [fname |-> "nl_NL", entries |-> <<TextLongWord>>] }
\* the most .po files in the directory
MaxPoFiles == 2
\* line 160: glob lists the files of the directory once each, in any order
FilesLists ==
    UNION { { fl \in [1..n -> PoFiles] :
                \A a \in 1..n : \A b \in 1..n : fl[a] = fl[b] => a = b }
            : n \in 0..MaxPoFiles }

\* all of the proofreader stays as it is
proofreaderVars == <<call, returned, scan, runVars, cliVars, dirVars>>
proofreaderIdle ==
    /\ diff = <<>>
    /\ changed = <<>>
    /\ main = "start"
    /\ K = 1
    /\ value = 1
    /\ waiters = <<>>
    /\ pc = <<>>
    /\ attempts = <<>>
    /\ why = <<>>
    /\ classification = <<>>
    /\ ret = <<>>
    /\ outOfOrder = FALSE
    /\ sent = <<>>
    /\ inflight = <<>>
    /\ results = <<>>
    /\ spam_by_locale = EmptyDict
    /\ report = <<>>
    /\ stats = <<>>
    /\ call = [fn |-> "none"]
    /\ returned = <<>>
    /\ scan = [where |-> "none"]
    /\ NoCli
    /\ NoDir

\* lines 158-160: examined lists the files handed to
\* detect_malicious_stuff_in_po_file, logged the files with a printed match
InitDetect ==
    /\ proofreaderIdle
    /\ \E fl \in FilesLists :
          upd = [fn |-> "detect_malicious_stuff_in_dir", where |-> "loop",
                 files_list |-> fl, k |-> 1, is_detected |-> FALSE,
                 examined |-> <<>>, logged |-> {}]

\* faulty variant: the loop ends at the first file with a match
DetectFileStopping ==
    /\ upd.fn = "detect_malicious_stuff_in_dir"
    /\ upd.where = "loop"
    /\ upd.k <= Len(upd.files_list)
    /\ LET fname == upd.files_list[upd.k]
           found == detect_malicious_stuff_in_po_file(fname)
       IN  upd' = [upd EXCEPT
                      !.is_detected = @ \/ found,
                      !.examined = Append(@, fname.fname),
                      !.logged = IF found THEN @ \cup {fname.fname} ELSE @,
                      !.k = IF found THEN Len(upd.files_list) + 1 ELSE @ + 1]
    /\ UNCHANGED proofreaderVars
\* lines 161-162: is_detected |= detect_malicious_stuff_in_po_file(fname)
DetectFile ==
    /\ upd.fn = "detect_malicious_stuff_in_dir"
    /\ upd.where = "loop"
    /\ upd.k <= Len(upd.files_list)
    /\ LET fname == upd.files_list[upd.k]
           found == detect_malicious_stuff_in_po_file(fname)
       IN  upd' = [upd EXCEPT
                      !.is_detected = @ \/ found,
                      !.examined = Append(@, fname.fname),
                      !.logged = IF found THEN @ \cup {fname.fname} ELSE @,
                      !.k = @ + 1]
    /\ UNCHANGED proofreaderVars

\* lines 164-165: after the loop, raise if anything was detected
DetectRaise ==
    /\ upd.fn = "detect_malicious_stuff_in_dir"
    /\ upd.where = "loop"
    /\ upd.k > Len(upd.files_list)
    /\ upd.is_detected
    /\ upd' = [upd EXCEPT !.where = "raised"]
    /\ UNCHANGED proofreaderVars

\* line 164: nothing was detected, the function returns
DetectReturn ==
    /\ upd.fn = "detect_malicious_stuff_in_dir"
    /\ upd.where = "loop"
    /\ upd.k > Len(upd.files_list)
    /\ ~upd.is_detected
    /\ upd' = [upd EXCEPT !.where = "returned"]
    /\ UNCHANGED proofreaderVars

NextDetect ==
    \/ DetectFile
    \/ DetectRaise
    \/ DetectReturn

SpecDetect == InitDetect /\ [][NextDetect]_vars

(***************************************************************************)
(* C39: the whole directory is examined before the decision.               *)
(***************************************************************************)
\* some translation of some file of the directory matches some regex
SomeTranslationMatches ==
    \E f \in 1..Len(upd.files_list) :
        \E e \in 1..Len(upd.files_list[f].entries) :
            \/ BITCOIN_ADDRESS_REGEXP(upd.files_list[f].entries[e])
            \/ EMAIL_ADDRESS_REGEXP(upd.files_list[f].entries[e])
            \/ URL1_REGEXP(upd.files_list[f].entries[e])
            \/ URL2_REGEXP(upd.files_list[f].entries[e])
            \/ MIXED_LETTERS_AND_DIGITS_WORD_REGEXP(upd.files_list[f].entries[e])

\* C39: when detect_malicious_stuff_in_dir ends, by raising or by returning,
\* every .po file of the directory has been examined, once and in the order
\* of the list, also the files after the first one with a match; every file
\* with a match has been logged; and it has raised if and only if some
\* translation of some file matches one of the regexes.
C39_WholeDirectoryExamined ==
    (upd.fn = "detect_malicious_stuff_in_dir" /\ upd.where \in {"raised", "returned"}) =>
        /\ upd.examined = [f \in 1..Len(upd.files_list) |-> upd.files_list[f].fname]
        /\ upd.logged = { upd.files_list[f].fname : f \in
                            { g \in 1..Len(upd.files_list) :
                                detect_malicious_stuff_in_po_file(upd.files_list[g]) } }
        /\ (upd.where = "raised") <=> SomeTranslationMatches

\* C39 witness: the first file has a match, the second file has none and
\* was examined all the same, and the function has raised.
C39_Witness ==
    /\ upd.fn = "detect_malicious_stuff_in_dir"
    /\ upd.where = "raised"
    /\ Len(upd.files_list) = 2
    /\ detect_malicious_stuff_in_po_file(upd.files_list[1])
    /\ ~detect_malicious_stuff_in_po_file(upd.files_list[2])
    /\ Len(upd.examined) = 2

(***************************************************************************)
(* update.py: pull_locale.  A key is a sequence of characters; None and an *)
(* unset variable or a missing file are told by a flag.  The age of a      *)
(* build is counted in hours.                                              *)
(***************************************************************************)
PyNone == [some |-> FALSE, text |-> <<>>]
PyStr(text) == [some |-> TRUE, text |-> text]
\* the truth value of an optional string: None and "" are false
Truthy(v) == v.some /\ v.text # <<>>

\* lines 53-61: the environment variable if it is set, whatever it holds;
\* else the stripped content of the key file if it exists; else None
get_crowdin_api_key(env, file) ==
    IF env.some THEN PyStr(env.text)
    ELSE IF file.some THEN PyStr(StrStrip(file.text))
    ELSE PyNone

\* the keys that the argument, the environment and the key file can hold
KeyTexts == {<<>>, <<"k">>}
KeyArgs == {PyNone} \cup {PyStr(t) : t \in KeyTexts}
KeyEnvs == {PyNone} \cup {PyStr(t) : t \in KeyTexts}
KeyFiles == {PyNone, PyStr(<<" ", NL>>), PyStr(<<"k", NL>>)}

\* line 94, datetime.timedelta(days=2), in hours
TwoDays == 48
\* the builds that the service can report: status and age in hours
Builds == [status : {"finished", "inProgress"}, age : {0, TwoDays, TwoDays + 1}]
\* the most builds in the answer of the service
MaxBuilds == 2
\* the answers to translations.builds.getMany: an HTTP error, or the list
\* of builds
BuildsResponses ==
    {[ok |-> FALSE, data |-> <<>>]}
    \cup UNION { {[ok |-> TRUE, data |-> b] : b \in [1..n -> Builds]} : n \in 0..MaxBuilds }

\* the names inside the zipfile (lines 116-130): startswith(prefix), the
\* name without the prefix, endswith('/'), endswith('.po')
ZipNames ==
    { [prefix |-> FALSE, name_suffix |-> "README.md", dir |-> FALSE, po |-> FALSE],
      [prefix |-> TRUE, name_suffix |-> "", dir |-> TRUE, po |-> FALSE],
      [prefix |-> TRUE, name_suffix |-> "de_DE/", dir |-> TRUE, po |-> FALSE],
      [prefix |-> TRUE, name_suffix |-> "de_DE/electrum.po", dir |-> FALSE, po |-> TRUE],
      [prefix |-> TRUE, name_suffix |-> "de_DE/electrum.mo", dir |-> FALSE, po |-> FALSE] }
\* the most names in the zipfile
MaxNames == 2
\* the answers to the download of the zipfile: an HTTP error, or the names
ZipResponses ==
    {[ok |-> FALSE, names |-> <<>>]}
    \cup UNION { {[ok |-> TRUE, names |-> z] : z \in [1..n -> ZipNames]} : n \in 0..MaxNames }

\* line 64: the call, with the environment it runs in; requests lists the
\* requests made, written the files written
InitPull ==
    /\ proofreaderIdle
    /\ \E arg \in KeyArgs : \E env \in KeyEnvs : \E file \in KeyFiles :
          upd = [fn |-> "pull_locale", where |-> "start", arg |-> arg, env |-> env,
                 file |-> file, crowdin_api_key |-> arg, authorization |-> FALSE,
                 requests |-> <<>>, data |-> <<>>, latest_build |-> <<>>,
                 names |-> <<>>, n |-> 0, written |-> {}, error |-> "none"]

PullAt(where) == upd.fn = "pull_locale" /\ upd.where = where
Raise(error) == [upd EXCEPT !.where = "raised", !.error = error]

\* lines 66-67: without a key argument the key is looked up
PullGetKey ==
    /\ PullAt("start")
    /\ upd' = [upd EXCEPT
                  !.where = "key",
                  !.crowdin_api_key =
                      IF ~upd.arg.some THEN get_crowdin_api_key(upd.env, upd.file) ELSE @]
    /\ UNCHANGED proofreaderVars

\* faulty variant: without a key the requests are made without the header
PullCheckKeyOptional ==
    /\ PullAt("key")
    /\ upd' = [upd EXCEPT !.where = "builds",
                          !.authorization = Truthy(upd.crowdin_api_key)]
    /\ UNCHANGED proofreaderVars
\* lines 68-72: no key or an empty key raises; else the key goes into the
\* Authorization header
PullCheckKey ==
    /\ PullAt("key")
    /\ upd' = IF ~Truthy(upd.crowdin_api_key)
              THEN Raise("missing required crowdin_api_key")
              ELSE [upd EXCEPT !.where = "builds", !.authorization = TRUE]
    /\ UNCHANGED proofreaderVars

\* lines 82-86: the list of builds is requested
PullGetBuilds(response) ==
    /\ PullAt("builds")
    /\ LET sent_request == [upd EXCEPT !.requests =
                               Append(@, [url |-> "builds", authorization |-> upd.authorization])]
       IN  upd' = IF ~response.ok
                  THEN [sent_request EXCEPT !.where = "raised", !.error = "HTTPError"]
                  ELSE [sent_request EXCEPT !.where = "latest", !.data = response.data]
    /\ UNCHANGED proofreaderVars

\* lines 88-95: the first build of the list must be finished and at most
\* two days old
PullLatestBuild ==
    /\ PullAt("latest")
    /\ upd' = IF upd.data = <<>> THEN Raise("IndexError")
              ELSE IF upd.data[1].status # "finished" THEN Raise("AssertionError")
              ELSE IF upd.data[1].age > TwoDays
                   THEN Raise("latest translation build looks too old")
              ELSE [upd EXCEPT !.where = "download", !.latest_build = <<upd.data[1]>>,
                               !.data = <<>>]
    /\ UNCHANGED proofreaderVars

\* lines 97-105: the URL of the build is requested
PullGetUrl(ok) ==
    /\ PullAt("download")
    /\ LET sent_request == [upd EXCEPT !.requests =
                               Append(@, [url |-> "download", authorization |-> upd.authorization])]
       IN  upd' = IF ~ok
                  THEN [sent_request EXCEPT !.where = "raised", !.error = "HTTPError"]
                  ELSE [sent_request EXCEPT !.where = "fetch"]
    /\ UNCHANGED proofreaderVars

\* lines 107-112: the zipfile is downloaded, without headers
PullFetch(response) ==
    /\ PullAt("fetch")
    /\ LET sent_request == [upd EXCEPT !.requests =
                               Append(@, [url |-> "build_url", authorization |-> FALSE])]
       IN  upd' = IF ~response.ok
                  THEN [sent_request EXCEPT !.where = "raised", !.error = "HTTPError"]
                  ELSE [sent_request EXCEPT !.where = "unzip", !.names = response.names,
                                            !.n = 1]
    /\ UNCHANGED proofreaderVars

\* lines 116-130: the next name of the zipfile; a file is written before
\* its name is found to be unexpected
PullUnzip ==
    /\ PullAt("unzip")
    /\ upd.n <= Len(upd.names)
    /\ LET name == upd.names[upd.n]
       IN  upd' = IF ~name.prefix \/ name.name_suffix = "" \/ name.dir
                  THEN [upd EXCEPT !.n = @ + 1]
                  ELSE IF name.po
                  THEN [upd EXCEPT !.n = @ + 1, !.written = @ \cup {name.name_suffix}]
                  ELSE [upd EXCEPT !.where = "raised",
                                   !.error = "unexpected file inside zipfile",
                                   !.written = @ \cup {name.name_suffix}]
    /\ UNCHANGED proofreaderVars

\* line 116: no name is left, pull_locale returns
PullReturn ==
    /\ PullAt("unzip")
    /\ upd.n > Len(upd.names)
    /\ upd' = [upd EXCEPT !.where = "returned"]
    /\ UNCHANGED proofreaderVars

NextPull ==
    \/ PullGetKey
    \/ PullCheckKey
    \/ \E response \in BuildsResponses : PullGetBuilds(response)
    \/ PullLatestBuild
    \/ \E ok \in BOOLEAN : PullGetUrl(ok)
    \/ \E response \in ZipResponses : PullFetch(response)
    \/ PullUnzip
    \/ PullReturn

SpecPull == InitPull /\ [][NextPull]_vars

(***************************************************************************)
(* C40: what pull_locale requires before it downloads.                     *)
(***************************************************************************)
\* a key is available: the argument, or without an argument the variable
\* of the environment, or without that the key file, holds one
KeySupplied ==
    \/ Truthy(upd.arg)
    \/ ~upd.arg.some /\ Truthy(upd.env)
    \/ ~upd.arg.some /\ ~upd.env.some /\ upd.file.some /\ StrStrip(upd.file.text) # <<>>
\* the build was asked for, the zipfile was downloaded or a file was written
Downloading ==
    \/ upd.written # {}
    \/ \E r \in 1..Len(upd.requests) : upd.requests[r].url \in {"download", "build_url"}
    \/ upd.where \in {"download", "fetch", "unzip", "returned"}

\* C40: pull_locale asks for the download, downloads and writes files only
\* with a key (sent with every request to the service), a latest build of
\* status finished and an age of at most two days; without a key it raises
\* and has made no request; with a build that is not finished or is older
\* than two days it raises after the one request for the list of builds.
C40_PullPreconditions ==
    upd.fn = "pull_locale" =>
        /\ Downloading =>
              /\ KeySupplied
              /\ Truthy(upd.crowdin_api_key)
              /\ \A r \in 1..Len(upd.requests) :
                    upd.requests[r].url # "build_url" => upd.requests[r].authorization
              /\ Len(upd.latest_build) = 1
              /\ upd.latest_build[1].status = "finished"
              /\ upd.latest_build[1].age <= TwoDays
        /\ (upd.where \notin {"start", "key"} /\ ~KeySupplied) =>
              /\ upd.where = "raised"
              /\ upd.error = "missing required crowdin_api_key"
              /\ upd.requests = <<>>
        /\ (upd.where = "raised" /\ upd.error = "missing required crowdin_api_key") =>
              upd.requests = <<>> /\ upd.written = {}
        /\ (upd.data # <<>> /\ upd.where \notin {"latest"}) =>
              /\ upd.where = "raised"
              /\ upd.data[1].status # "finished" \/ upd.data[1].age > TwoDays
              /\ Len(upd.requests) = 1
              /\ upd.written = {}

\* C40 witness: the key came from the key file, the latest build is
\* finished and exactly two days old, and a translation file was written.
C40_Witness ==
    /\ upd.fn = "pull_locale"
    /\ upd.where = "returned"
    /\ ~upd.arg.some
    /\ ~upd.env.some
    /\ upd.crowdin_api_key = PyStr(<<"k">>)
    /\ upd.latest_build = <<[status |-> "finished", age |-> TwoDays]>>
    /\ upd.written = {"de_DE/electrum.po"}
    /\ Len(upd.requests) = 3

====
